---------------------------- MODULE Spec2Model ----------------------------
(***************************************************************************)
(* A model of the piglet template engine (site-packages/piglet): the      *)
(* render-time context stack (template.py), the code generated for        *)
(* py:with, py:choose, py:block and py:extends (compile.py), super()      *)
(* resolution (runtime.py), the template loader (loader.py), the parsers  *)
(* (parse.py, parsers/) with the rendering of plain markup                *)
(* (compilexml.py), the annotation of run-time exceptions (runtime.py,    *)
(* compile.py), interleaved render generators (template.py), the          *)
(* element tree of the markup dialect (compilexml.py: make_dom), the      *)
(* statement tree and whitespace control of the text dialect              *)
(* (compilett.py: make_tree, strip_ws) and token positions (parse.py).    *)
(*                                                                         *)
(* Each part of the engine has its own group of variables and its own     *)
(* specification; a specification holds the other groups at their initial *)
(* values.                                                                 *)
(***************************************************************************)
EXTENDS Integers, Sequences, FiniteSets, TLC

(***************************************************************************)
(* Variables                                                               *)
(***************************************************************************)
VARIABLES
    \* ---- template.py: BaseTemplate.__call__ / render on one thread ----
    context,        \* rtdata.context: the thread's stack of mappings
    rpc,            \* per render call: position inside the generator __call__
    before,         \* per render call: rtdata.context when render was called
    active,         \* the render calls in progress, innermost last
    items,          \* per render call: number of fragments yielded so far
    propagating,    \* an exception is travelling up through the callers
    finished,       \* the render call that ended in the last step (0: none)
    \* ---- compile.py: the code generated for one py:with block ----
    wpairs,         \* srcnode.get_pairs(): the (name, expression) bindings
    wctx0,          \* the context mapping when the block is entered
    wctx,           \* __piglet_ctx: the context mapping
    wlocal,         \* the local variables of the generated function
    wsave,          \* the __piglet_save<n> variables, one per binding
    wpc,            \* position in the generated code
    wi,             \* the binding the entry or exit code has reached
    \* ---- compile.py / runtime.py: rendering an inheritance chain ----
    hleaf,          \* the chain is T0 <- T1 <- ... <- T[hleaf]; the leaf is rendered
    hdefines,       \* per template: it has a py:block named "x"
    hsuper,         \* per template: the body of its block calls super()
    hroot,          \* T0: "none" (no py:extends) or "missing" (extends a file
                    \* that does not exist)
    hignore,        \* T0's py:extends carries ignore-missing
    hinclude,       \* template -> it has a py:include of I before the rest
    hincdefines,    \* the included template I has the block
    frames,         \* the generator functions in progress, innermost last
    out,            \* the output fragments produced so far
    visited,        \* the block definitions executed so far, in order
    hstatus,        \* "idle", "running", "returned" or "TemplateNotFound"
    \* ---- compile.py: the code generated for one py:choose ----
    cchildren,      \* the When and Otherwise children, in source order
    ctest,          \* the choose test: a value, or EmptyTest
    cvar,           \* __piglet_choose<n>: the value of the choose test
    cflag,          \* __piglet_chosen<n>
    ci,             \* the child the generated code has reached
    crendered,      \* the children whose body was rendered in this evaluation
    cout,           \* the rendered children in the order of their output
    cevals,         \* evaluations of the choose started so far
    cpc,            \* "idle", "children" or "done"
    \* ---- loader.py: path resolution of TemplateLoader.load ----
    preq,           \* the path argument of the load call
    prel,           \* relative_to.filename, NoPath when relative_to is None
    pallow,         \* loader.allow_absolute_paths
    psearch,        \* the search path resolve_path returned
    ppath,          \* the path resolve_path returned
    popened,        \* the file the call opened, NoPath if none
    ppc,            \* "idle", "call", "opened" or "TemplateNotFound"
    \* ---- loader.py: the caches of a TemplateLoader with auto_reload ----
    mtime,          \* os.path.getmtime of every template file
    content,        \* the content of every template file (a version number)
    clock,          \* the time of the latest write to a file
    cache,          \* loader._cache: (path, relative_path) -> (template, mtime)
    level2_cache,   \* loader._level2_cache: path -> (digest, template)
    objs,           \* the Template objects constructed so far
    nextid,         \* identity of the next Template object
    lfile,          \* path of the latest load call, NoFile after a write
    lresult,        \* the Template object the latest load call returned
    prevfile,       \* path of the load call just before the latest one
    prevresult,     \* the Template object that call returned
    lfrom,          \* relative_to of the latest runtime.load, NoObject if none
    lsrc,           \* the file that call asked for
    lstatus,        \* its outcome: "none", "returned" or "PigletError"
    lcount,         \* number of runtime.load calls so far
    \* ---- parse.py: parse_html and parse_tt on one source string ----
    tsource,        \* the source string, a sequence of characters
    tgrammar,       \* "html" for parse_html, "tt" for parse_tt
    tloc,           \* pyparsing's loc: index of the next unparsed character
    tokens,         \* the parse items matched so far
    toutput,        \* the string render returned
    tstarts,        \* per item: the place in the source where it matched
    tpositions,     \* per item: the pos add_positions gave it (line, char)
    \* tpc is "idle", "parsing", "returned", "rendered", "PigletParseError"
    \* or "raised"
    tpc,            \* position of the parse and render of the source
    \* ---- loader.py: one TemplateLoader over several search directories ----
    sfiles,         \* the content of every file of the directories (Missing: none)
    scache,         \* loader._cache: (path, relative_path) -> template
    slevel2,        \* loader._level2_cache: path -> (digest, template)
    sobjs,          \* the Template objects constructed so far, in order
    sname,          \* the path argument of the latest load call
    sfrom,          \* its relative_to (NoObject when None)
    sselected,      \* the file the search path selects for that call
    sresult,        \* the Template object loader.load returned (NoObject: none)
    spc,            \* "idle", "returned", "PigletError" or "TemplateNotFound"
    \* ---- runtime.py / compile.py: an exception leaving nested template code ----
    xframes,        \* the renders and template statements in progress, innermost last
    xlocations,     \* per render in progress: its mapping's __piglet_exc_locations
    xexc,           \* the exception in flight (NoException: none)
    xannotations,   \* how many times munge_exception_messages annotated it
    xpc,            \* "idle", "running", "unwinding" or "propagated"
    \* ---- template.py: generators of __call__ drained in turns ----
    gcontext,       \* rtdata.context of the thread the generators run on
    gpc,            \* per generator: "new", "suspended" or "done"
    gread,          \* per generator: the mapping its latest function entry read
    gpopped,        \* per generator: the mapping its pop removed (0: none yet)
    gresumes,       \* per generator: resumes that entered a template function
    gprev,          \* the step before the latest one
    glast,          \* the latest step: (kind, generator)
    \* ---- compilexml.py: make_dom over a list of parsed items ----
    ditems,         \* parse_result: the items, in source order
    di,             \* index of the item the loop takes next
    dstack,         \* stack: the open elements (0 is the root Fragment)
    dchildren,      \* per element (index of its open tag): its children
    dstatus,        \* "building", "returned" or "PigletParseError"
    derror,         \* index of the tag the error message names (0: none)
    \* ---- compilett.py: make_tree over a list of parsed items ----
    mitems,         \* parse_result: the items, in source order
    mi,             \* index of the item the loop takes next
    mstack,         \* stack: the open statements (0 is the root Container)
    mhead,          \* head: the statement new items are appended to
    mchildren,      \* per statement (index of its open tag): its children
    mendtag,        \* per statement: the item set as its end_tag (0: None)
    mstatus,        \* "building", "returned" or the exception raised
    merror,         \* index of the item the error message names (0: none)
    \* ---- compilett.py: strip_ws_on_directive_lines over the tree ----
    scontent,       \* per item: the content of a Text (<<>> for a Statement)
    sorig,          \* per item: the content as parsed
    smods,          \* per item: (ws_before, ws_after) of a Statement
    swpc            \* "tree", "stripped" or "AttributeError"

renderVars == <<context, rpc, before, active, items, propagating, finished>>
withVars == <<wpairs, wctx0, wctx, wlocal, wsave, wpc, wi>>

inheritVars == <<hleaf, hdefines, hsuper, hroot, hignore, hinclude,
                 hincdefines, frames, out, visited, hstatus>>

chooseVars == <<cchildren, ctest, cvar, cflag, ci, crendered, cout, cevals,
                cpc>>

pathVars == <<preq, prel, pallow, psearch, ppath, popened, ppc>>

loaderVars == <<mtime, content, clock, cache, level2_cache, objs, nextid,
                lfile, lresult, prevfile, prevresult,
                lfrom, lsrc, lstatus, lcount>>

parseVars == <<tsource, tgrammar, tloc, tokens, toutput, tstarts,
               tpositions, tpc>>

searchVars == <<sfiles, scache, slevel2, sobjs, sname, sfrom, sselected,
                sresult, spc>>

excVars == <<xframes, xlocations, xexc, xannotations, xpc>>

genVars == <<gcontext, gpc, gread, gpopped, gresumes, gprev, glast>>

domVars == <<ditems, di, dstack, dchildren, dstatus, derror>>

treeVars == <<mitems, mi, mstack, mhead, mchildren, mendtag, mstatus,
              merror>>

stripVars == <<scontent, sorig, smods, swpc>>

vars == <<renderVars, withVars, inheritVars, chooseVars, pathVars,
          loaderVars, parseVars, searchVars, excVars, genVars, domVars,
          treeVars, stripVars>>

\* What the steps of one part leave alone: the variables of the other parts.
exceptRender == <<withVars, inheritVars, chooseVars, pathVars, loaderVars,
                  parseVars, searchVars, excVars, genVars, domVars, treeVars,
                  stripVars>>
exceptWith == <<renderVars, inheritVars, chooseVars, pathVars, loaderVars,
                parseVars, searchVars, excVars, genVars, domVars, treeVars,
                stripVars>>
exceptInherit == <<renderVars, withVars, chooseVars, pathVars, loaderVars,
                   parseVars, searchVars, excVars, genVars, domVars,
                   treeVars, stripVars>>
exceptChoose == <<renderVars, withVars, inheritVars, pathVars, loaderVars,
                  parseVars, searchVars, excVars, genVars, domVars, treeVars,
                  stripVars>>
exceptPath == <<renderVars, withVars, inheritVars, chooseVars, loaderVars,
                parseVars, searchVars, excVars, genVars, domVars, treeVars,
                stripVars>>
exceptLoader == <<renderVars, withVars, inheritVars, chooseVars, pathVars,
                  parseVars, searchVars, excVars, genVars, domVars, treeVars,
                  stripVars>>
exceptParse == <<renderVars, withVars, inheritVars, chooseVars, pathVars,
                 loaderVars, searchVars, excVars, genVars, domVars, treeVars,
                 stripVars>>
exceptSearch == <<renderVars, withVars, inheritVars, chooseVars, pathVars,
                  loaderVars, parseVars, excVars, genVars, domVars, treeVars,
                  stripVars>>
exceptExc == <<renderVars, withVars, inheritVars, chooseVars, pathVars,
               loaderVars, parseVars, searchVars, genVars, domVars, treeVars,
               stripVars>>
exceptGen == <<renderVars, withVars, inheritVars, chooseVars, pathVars,
               loaderVars, parseVars, searchVars, excVars, domVars, treeVars,
               stripVars>>
exceptDom == <<renderVars, withVars, inheritVars, chooseVars, pathVars,
               loaderVars, parseVars, searchVars, excVars, genVars, treeVars,
               stripVars>>
exceptTree == <<renderVars, withVars, inheritVars, chooseVars, pathVars,
                loaderVars, parseVars, searchVars, excVars, genVars, domVars,
                stripVars>>
exceptStrip == <<renderVars, withVars, inheritVars, chooseVars, pathVars,
                 loaderVars, parseVars, searchVars, excVars, genVars,
                 domVars, treeVars>>

(***************************************************************************)
(* Bounds                                                                  *)
(***************************************************************************)
MaxRenders == 3     \* render calls on the thread
MaxItems   == 2     \* output fragments one render yields
MaxBindings == 2    \* bindings of one py:with
MaxVal     == 2     \* distinct plain values of template variables
MaxDepth   == 3     \* index of the deepest leaf of an inheritance chain
MaxChildren == 3    \* When and Otherwise children of one py:choose
MaxEvals   == 2     \* evaluations of one py:choose (it may sit in a loop)
MaxSegments == 3    \* segments of a requested template path
MaxImports == 2     \* length of the chain of py:import between template files
MaxObjects == 7     \* Template objects one loader constructs
MaxClock   == 4     \* latest modification time of a file
MaxInitialMtime == 2 \* latest modification time before the loader is made
MaxHtmlSource == 5  \* characters of a markup source
MaxTtSource == 6    \* characters of a delimited-text source
MaxRuntimeLoads == 1 \* runtime.load calls issued by rendered templates
MaxDirs == 2        \* directories of the search path
MaxNames == 2       \* distinct template names
MaxTemplates == 4   \* Template objects built over several directories
MaxExcFiles == 2    \* template files whose code an exception passes
MaxNesting == 4     \* renders and statements in progress at once
MaxLine == 2        \* lines of a template file
MaxGenerators == 3  \* generators of render calls held at once
MaxResumes == 2     \* resumes of one generator that enter a function
MaxTokens == 4      \* items of one parse result
MaxQnames == 2      \* distinct tag names
MaxWhite == 2       \* characters of one run of whitespace

Renders == 1..MaxRenders

Last(s) == s[Len(s)]
Front(s) == SubSeq(s, 1, Len(s) - 1)

(***************************************************************************)
(* template.py: BaseTemplate.__call__ and BaseTemplate.render              *)
(*                                                                         *)
(* render(context) drains the generator __call__(context).  The mapping   *)
(* of render call r is identified with r.  A render can be called at top  *)
(* level, or from inside the output production of another render (a       *)
(* nested render), which then runs to its end before the outer resumes.   *)
(***************************************************************************)
RenderInit ==
    /\ context = <<>>
    /\ rpc = [r \in Renders |-> "idle"]
    /\ before = [r \in Renders |-> <<>>]
    /\ active = <<>>
    /\ items = [r \in Renders |-> 0]
    /\ propagating = FALSE
    /\ finished = 0

\* The generator of render call r ends by raising: it leaves the call stack
\* and the exception travels to its caller, if any.
RaiseOutOf(r) ==
    /\ rpc' = [rpc EXCEPT ![r] = "raised"]
    /\ active' = Front(active)
    /\ propagating' = (Len(active) > 1)
    /\ finished' = r

\* template.py 100: rtdata.context.pop() removes the innermost entry,
\* whichever mapping that is.
ContextPop(stack) == Front(stack)

\* template.py 83-86: the first next() on the generator pushes the mapping.
CallPush(r) ==
    /\ rpc[r] = "idle"
    /\ ~propagating
    /\ IF active = <<>> THEN TRUE ELSE rpc[Last(active)] = "draining"
    /\ before' = [before EXCEPT ![r] = context]
    /\ context' = Append(context, r)
    /\ rpc' = [rpc EXCEPT ![r] = "pushed"]
    /\ active' = Append(active, r)
    /\ finished' = 0
    /\ UNCHANGED <<items, propagating>>
    /\ UNCHANGED exceptRender

\* template.py 87-94: translations = self.translations_factory(), outside the
\* try block.  The factory is caller-supplied code and may raise.
CallTranslations(r) ==
    /\ active # <<>> /\ Last(active) = r
    /\ rpc[r] = "pushed"
    /\ \E ok \in BOOLEAN :
          IF ok
          THEN /\ rpc' = [rpc EXCEPT ![r] = "translated"]
               /\ finished' = 0
               /\ UNCHANGED <<active, propagating>>
          ELSE RaiseOutOf(r)
    /\ UNCHANGED <<context, before, items>>
    /\ UNCHANGED exceptRender

\* template.py 95: self.root_fn(*args, **kwargs), outside the try block.
\* Binding the caller's extra arguments to the root function may raise
\* TypeError.
CallRootFn(r) ==
    /\ active # <<>> /\ Last(active) = r
    /\ rpc[r] = "translated"
    /\ \E ok \in BOOLEAN :
          IF ok
          THEN /\ rpc' = [rpc EXCEPT ![r] = "draining"]
               /\ finished' = 0
               /\ UNCHANGED <<active, propagating>>
          ELSE RaiseOutOf(r)
    /\ UNCHANGED <<context, before, items>>
    /\ UNCHANGED exceptRender

\* template.py 96-98: one fragment is yielded inside the try block.
CallYield(r) ==
    /\ active # <<>> /\ Last(active) = r
    /\ rpc[r] = "draining"
    /\ ~propagating
    /\ items[r] < MaxItems
    /\ items' = [items EXCEPT ![r] = @ + 1]
    /\ finished' = 0
    /\ UNCHANGED <<context, rpc, before, active, propagating>>
    /\ UNCHANGED exceptRender

\* template.py 96-100: output production raises (its own error, or the
\* exception of a nested render); the finally block pops.
CallRaise(r) ==
    /\ active # <<>> /\ Last(active) = r
    /\ rpc[r] = "draining"
    /\ context' = ContextPop(context)
    /\ RaiseOutOf(r)
    /\ UNCHANGED <<before, items>>
    /\ UNCHANGED exceptRender

\* template.py 96-100: the content is exhausted; the finally block pops.
CallReturn(r) ==
    /\ active # <<>> /\ Last(active) = r
    /\ rpc[r] = "draining"
    /\ ~propagating
    /\ context' = ContextPop(context)
    /\ rpc' = [rpc EXCEPT ![r] = "returned"]
    /\ active' = Front(active)
    /\ finished' = r
    /\ UNCHANGED <<before, items, propagating>>
    /\ UNCHANGED exceptRender

\* template.py 96-98: the content being drained runs the callables of the
\* mapping (test_piglet.py 493-497 passes one that renders another
\* template); such a callable may handle the exception of the render it
\* started, and output production goes on.
CallCatch(r) ==
    /\ active # <<>> /\ Last(active) = r
    /\ rpc[r] = "draining"
    /\ propagating
    /\ propagating' = FALSE
    /\ finished' = 0
    /\ UNCHANGED <<context, rpc, before, active, items>>
    /\ UNCHANGED exceptRender

RenderNext ==
    \/ \E r \in Renders : CallPush(r)
    \/ \E r \in Renders : CallTranslations(r)
    \/ \E r \in Renders : CallRootFn(r)
    \/ \E r \in Renders : CallYield(r)
    \/ \E r \in Renders : CallRaise(r)
    \/ \E r \in Renders : CallCatch(r)
    \/ \E r \in Renders : CallReturn(r)

\* C15: when a render started from inside another render's output
\* production returns, the innermost entry of the context stack is the
\* mapping of that outer render (compile.py 1066-1075: every template
\* function reads rtdata.context[-1] on entry, so this is the mapping the
\* outer template's later lookups use).
C15_NestedRenderLeavesOuterInnermost ==
    (finished # 0 /\ rpc[finished] = "returned" /\ active # <<>>)
        => (context # <<>> /\ Last(context) = Last(active))

(***************************************************************************)
(* compile.py: Compiler.compile_withnode                                   *)
(*                                                                         *)
(* The generated code of <py:with vars="n1 = e1; n2 = e2; ...">body        *)
(* </py:with> is, in this order and with no try block around the body:     *)
(*     marker = []                                                         *)
(*     for each binding i:   save_i = ctx.get(n_i, marker)                 *)
(*                           n_i = ctx[n_i] = e_i                          *)
(*     body                                                                *)
(*     for each binding i:   if save_i is marker: del ctx[n_i]             *)
(*                                                n_i = Undefined(n_i)     *)
(*                           else: n_i = ctx[n_i] = save_i                 *)
(***************************************************************************)
Names == {"x", "y"}
\* Plain values are 1..MaxVal; the three other things a slot can hold:
Absent == 0
Marker == -1
Undef == -2
Values == 1..MaxVal \cup {Undef}

\* The expressions of a binding: a literal, a reference to a variable, or an
\* expression whose evaluation raises (such as 1/0).
Exprs == {<<"const", v>> : v \in 1..MaxVal}
            \cup {<<"ref", n>> : n \in Names}
            \cup {<<"raises">>}

Pairs == Names \X Exprs

SeqsUpTo(S, n) == UNION {[1..k -> S] : k \in 1..n}

\* compile.py 1066-1110: on entry every free variable of the function is
\* read from the context, with an Undefined instance as the default.
Hoisted(ctx) == [n \in Names |-> IF ctx[n] = Absent THEN Undef ELSE ctx[n]]

WithIdle ==
    /\ wpairs = <<>>
    /\ wctx0 = [n \in Names |-> Absent]
    /\ wctx = [n \in Names |-> Absent]
    /\ wlocal = [n \in Names |-> Undef]
    /\ wsave = <<>>
    /\ wpc = "idle"
    /\ wi = 0

WithInit ==
    /\ wpairs \in SeqsUpTo(Pairs, MaxBindings)
    /\ wctx0 \in [Names -> (1..MaxVal) \cup {Absent}]
    /\ wctx = wctx0
    /\ wlocal = Hoisted(wctx0)
    /\ wsave = <<>>
    /\ wpc = "enter"
    /\ wi = 1

\* compile.py 526: save = __piglet_ctx.get(name, marker)
SavedValue(ctx, name) == IF ctx[name] = Absent THEN Marker ELSE ctx[name]

\* The value of a binding's expression in the function's local variables.
Eval(expr, locals) ==
    IF expr[1] = "const" THEN expr[2] ELSE locals[expr[2]]

\* compile.py 521-532: the entry code of binding wi.
WithBind ==
    /\ wpc = "enter"
    /\ LET name == wpairs[wi][1]
           expr == wpairs[wi][2]
       IN  /\ wsave' = Append(wsave, SavedValue(wctx, name))
           /\ IF expr[1] = "raises"
              THEN /\ wpc' = "raised_in_binding"
                   /\ UNCHANGED <<wctx, wlocal, wi>>
              ELSE /\ wctx' = [wctx EXCEPT ![name] = Eval(expr, wlocal)]
                   /\ wlocal' = [wlocal EXCEPT ![name] = Eval(expr, wlocal)]
                   /\ IF wi = Len(wpairs)
                      THEN wpc' = "body" /\ wi' = 1
                      ELSE wpc' = "enter" /\ wi' = wi + 1
    /\ UNCHANGED <<wpairs, wctx0>>
    /\ UNCHANGED exceptWith

\* compile.py 534-535: the children of the block run to their end.
WithBody ==
    /\ wpc = "body"
    /\ wpc' = "exit"
    /\ UNCHANGED <<wpairs, wctx0, wctx, wlocal, wsave, wi>>
    /\ UNCHANGED exceptWith

\* compile.py 534-535: a child of the block raises; nothing in the generated
\* code catches it, so the function is left and the exit code is skipped.
WithBodyRaises ==
    /\ wpc = "body"
    /\ wpc' = "raised_in_body"
    /\ UNCHANGED <<wpairs, wctx0, wctx, wlocal, wsave, wi>>
    /\ UNCHANGED exceptWith

\* compile.py 541-545: what the exit code of one binding does to the mapping.
Restore(ctx, name, saved) ==
    IF saved = Marker
    THEN [ctx EXCEPT ![name] = Absent]
    ELSE [ctx EXCEPT ![name] = saved]

\* compile.py 537-548: the exit code of binding wi; the bindings are taken
\* in the order of entry.
WithRestore ==
    /\ wpc = "exit"
    /\ LET name == wpairs[wi][1]
           saved == wsave[wi]
       IN  IF saved = Marker /\ wctx[name] = Absent
           THEN \* del __piglet_ctx[name] raises KeyError
                /\ wpc' = "raised_in_exit"
                /\ UNCHANGED <<wctx, wlocal, wi>>
           ELSE /\ wctx' = Restore(wctx, name, saved)
                /\ wlocal' = [wlocal EXCEPT ![name] =
                                 IF saved = Marker THEN Undef ELSE saved]
                /\ IF wi = Len(wpairs)
                   THEN wpc' = "done" /\ wi' = wi
                   ELSE wpc' = "exit" /\ wi' = wi + 1
    /\ UNCHANGED <<wpairs, wctx0, wsave>>
    /\ UNCHANGED exceptWith

WithNext ==
    \/ WithBind
    \/ WithBody
    \/ WithBodyRaises
    \/ WithRestore

\* C2: when the body of a with block raises, every bound name is deleted
\* from the mapping or restored to its saved value before the exception
\* leaves the block.
C2_WithRestoresWhenBodyRaises ==
    wpc = "raised_in_body" => wctx = wctx0

\* C3: after the body completes normally, every name has its pre-entry
\* state in the mapping again: absent if it was absent, else its old value.
C3_WithPreservesScope ==
    wpc = "done" => wctx = wctx0

(***************************************************************************)
(* compile.py: Compiler.compile_extendsnode, Compiler.compile_blocknode;   *)
(* runtime.py: get_super                                                   *)
(*                                                                         *)
(* Template k > 0 is  "text_k <py:extends href=T[k-1]> [block x] </...>".  *)
(* Template 0 is      "text_0 [block x]"                       (hroot none)*)
(*            or      "text_0 <py:extends href=missing> [block x] </...>". *)
(* A template's root function is __piglet_root__(__piglet_bases = [],      *)
(* __piglet_block_x = <own block>, **__piglet_extra_blocks); its block     *)
(* function is __piglet_block_x(__piglet_bases = [], **extra).             *)
(***************************************************************************)
Templates == 0..MaxDepth
NoBlock == -1               \* no block function for "x" was handed over

InheritIdle ==
    /\ hleaf = 0
    /\ hdefines = [t \in Templates |-> FALSE]
    /\ hsuper = [t \in Templates |-> FALSE]
    /\ hroot = "none"
    /\ hignore = FALSE
    /\ hinclude = [t \in Templates |-> FALSE]
    /\ hincdefines = FALSE
    /\ frames = <<>>
    /\ out = <<>>
    /\ visited = <<>>
    /\ hstatus = "idle"

InheritInit ==
    /\ hleaf \in Templates
    /\ hdefines \in [Templates -> BOOLEAN]
    /\ hsuper \in [Templates -> BOOLEAN]
    /\ \A t \in Templates : (t > hleaf => ~hdefines[t]) /\ (hsuper[t] => hdefines[t])
    /\ hroot \in {"none", "missing"}
    /\ hignore \in BOOLEAN
    /\ hroot = "none" => ~hignore
    /\ hinclude = [t \in Templates |-> FALSE]
    /\ hincdefines = FALSE
    /\ frames = <<>>
    /\ out = <<>>
    /\ visited = <<>>
    /\ hstatus = "idle"

\* Chains in which templates that have the block may start with
\* <py:include href=I/>; every parent exists.
IncludeInit ==
    /\ hleaf \in Templates
    /\ hdefines \in [Templates -> BOOLEAN]
    /\ hsuper \in [Templates -> BOOLEAN]
    /\ hinclude \in [Templates -> BOOLEAN]
    /\ hincdefines \in BOOLEAN
    /\ \A t \in Templates :
          /\ t > hleaf => ~hdefines[t]
          /\ hsuper[t] => hdefines[t]
          /\ hinclude[t] => hdefines[t]
    /\ hroot = "none"
    /\ hignore = FALSE
    /\ frames = <<>>
    /\ out = <<>>
    /\ visited = <<>>
    /\ hstatus = "idle"

Frame(fn, t, bases, blk) ==
    [fn |-> fn, t |-> t, bases |-> bases, blk |-> blk, pc |-> "start"]

\* template.py 95: self.root_fn() of the leaf, with the defaults of
\* compile.py 291-292.
Render ==
    /\ hstatus = "idle"
    /\ hstatus' = "running"
    /\ frames' = <<Frame("root", hleaf, <<>>, NoBlock)>>
    /\ UNCHANGED <<hleaf, hdefines, hsuper, hroot, hignore, hinclude,
                   hincdefines, out, visited>>
    /\ UNCHANGED exceptInherit

\* compile.py 481-494 with 419-426: the root function of template t hands
\* __piglet_block_x to its parent's root function: the block function it
\* was called with if there is one (as its own parameter when t has the
\* block, else inside **__piglet_extra_blocks), otherwise its own.
PassedBlock(t, blk) ==
    IF blk # NoBlock THEN blk
    ELSE IF hdefines[t] THEN t ELSE NoBlock

\* A py:extends compiled without the try block: ignore-missing has no effect.
ExtendsOutcome_NoTry(found, ignore_missing) ==
    IF found THEN "delegate" ELSE "raise"

\* compile.py 448-473: what the code of py:extends does after the load.
\* Without ignore-missing the load is a plain statement; with it the load
\* is the body of try/except TemplateNotFound: pass, and all the rest of
\* the directive is the else branch of that try.
ExtendsOutcome(found, ignore_missing) ==
    IF found THEN "delegate"
    ELSE IF ignore_missing THEN "skip" ELSE "raise"

\* The included template I; it is not part of the chain.
Included == MaxDepth + 1

\* compile.py 435-437 with 459-473: a py:include is compiled by
\* compile_extendsnode, so its code also rebinds
\* __piglet_bases = [__piglet_parent] + __piglet_bases in the function that
\* holds it; the statements after it get that list.
IncludeBases(t, bases) ==
    IF hinclude[t] THEN <<Included>> \o bases ELSE bases

\* compile.py 481-494: yield from the included template's root function;
\* I is its text and, if it has the block, its own definition of it (which
\* does not call super).
IncludeOutput(t) ==
    IF ~hinclude[t] THEN <<>>
    ELSE <<<<"text", Included>>>> \o
         (IF hincdefines THEN <<<<"block", Included>>>> ELSE <<>>)

\* compile.py 439-494 and 341-433: the root function of the template of the
\* innermost frame yields its text, runs its py:include if it has one, and
\* then runs its py:extends, or, for a template without py:extends, its
\* block definition.
RootFn ==
    /\ frames # <<>>
    /\ LET f == Last(frames)
           t == f.t
           waiting == Front(frames) \o <<[f EXCEPT !.pc = "wait"]>>
           bases == IncludeBases(t, f.bases)
       IN  /\ f.fn = "root" /\ f.pc = "start"
           /\ out' = Append(out, <<"text", t>>) \o IncludeOutput(t)
           /\ IF t > 0 \/ hroot = "missing"
              THEN LET outcome == ExtendsOutcome(t > 0, t = 0 /\ hignore)
                   IN  /\ frames' =
                            IF outcome = "delegate"
                            THEN Append(waiting,
                                        Frame("root", t - 1, <<t - 1>> \o bases,
                                              PassedBlock(t, f.blk)))
                            ELSE IF outcome = "skip" THEN waiting
                            ELSE <<>>
                       /\ hstatus' = IF outcome = "raise"
                                     THEN "TemplateNotFound" ELSE hstatus
              ELSE /\ frames' =
                        IF hdefines[t]
                        THEN Append(waiting,
                                    Frame("block", PassedBlock(t, f.blk),
                                          bases, NoBlock))
                        ELSE waiting
                   /\ hstatus' = hstatus
    /\ UNCHANGED <<hleaf, hdefines, hsuper, hroot, hignore, hinclude,
                   hincdefines, visited>>
    /\ UNCHANGED exceptInherit

\* The position of template t in the list bases, 0 if it is not there.
IndexOf(bases, t) ==
    IF \E i \in 1..Len(bases) : bases[i] = t
    THEN CHOOSE i \in 1..Len(bases) :
            bases[i] = t /\ \A j \in 1..(i - 1) : bases[j] # t
    ELSE 0

\* get_super without the cut at the current template's own position.
EligibleBases_NoCut(bases, current_template) == bases

\* runtime.py 235-238: bases[:bases.index(current_template)], or a copy of
\* bases when current_template is not in the list.
EligibleBases(bases, current_template) ==
    IF IndexOf(bases, current_template) = 0
    THEN bases
    ELSE SubSeq(bases, 1, IndexOf(bases, current_template) - 1)

\* runtime.py 241: getattr(template, name) finds the module-level block
\* function of a template that has the block.
HasBlock(t) == IF t = Included THEN hincdefines ELSE hdefines[t]

\* The body of template t's definition of the block calls super().
CallsSuper(t) == t # Included /\ hsuper[t]

\* get_super taking the bases from the front of the list (pop(0)).
RECURSIVE SuperLoop_FromRoot(_)
SuperLoop_FromRoot(eligible_bases) ==
    IF eligible_bases = <<>>
    THEN [t |-> NoBlock, bases |-> <<>>]
    ELSE IF hdefines[Head(eligible_bases)]
         THEN [t |-> Head(eligible_bases), bases |-> Tail(eligible_bases)]
         ELSE SuperLoop_FromRoot(Tail(eligible_bases))

\* runtime.py 239-245: pop bases from the end until one has the block; the
\* result is that template and what is left of the list, or NoBlock and the
\* empty list (the nocontent default).
RECURSIVE SuperLoop(_)
SuperLoop(eligible_bases) ==
    IF eligible_bases = <<>>
    THEN [t |-> NoBlock, bases |-> <<>>]
    ELSE IF HasBlock(Last(eligible_bases))
         THEN [t |-> Last(eligible_bases), bases |-> Front(eligible_bases)]
         ELSE SuperLoop(Front(eligible_bases))

\* get_super popping from the caller's list itself instead of a copy.
get_super_InPlace(bases, current_template) ==
    LET found == SuperLoop(bases)
    IN  [t |-> found.t, bases |-> found.bases, caller |-> found.bases]

\* runtime.py 222-247: get_super(bases, current_template, name)(): the
\* template whose block runs, the list that block is handed, and the
\* caller's list afterwards.  eligible_bases is a slice of bases, a new
\* list, so the pops leave the caller's list as it was.
get_super(bases, current_template) ==
    LET found == SuperLoop(EligibleBases(bases, current_template))
    IN  [t |-> found.t, bases |-> found.bases, caller |-> bases]

\* compile.py 363-373 and 416-417: the block function of the innermost
\* frame binds super, yields its body and, if the body says so, calls
\* super().
BlockFn ==
    /\ frames # <<>>
    /\ LET f == Last(frames)
           target == get_super(f.bases, f.t)
           waiting == Front(frames) \o
                         <<[f EXCEPT !.pc = "wait",
                                     !.bases = IF CallsSuper(f.t)
                                               THEN target.caller
                                               ELSE f.bases]>>
       IN  /\ f.fn = "block" /\ f.pc = "start"
           /\ visited' = Append(visited, f.t)
           /\ out' = Append(out, <<"block", f.t>>)
           /\ frames' =
                IF CallsSuper(f.t) /\ target.t # NoBlock
                THEN Append(waiting,
                            Frame("block", target.t, target.bases, NoBlock))
                ELSE waiting
    /\ UNCHANGED <<hleaf, hdefines, hsuper, hroot, hignore, hinclude,
                   hincdefines, hstatus>>
    /\ UNCHANGED exceptInherit

\* The innermost generator function is exhausted.
Return ==
    /\ frames # <<>>
    /\ Last(frames).pc = "wait"
    /\ frames' = Front(frames)
    /\ hstatus' = IF Len(frames) = 1 THEN "returned" ELSE hstatus
    /\ UNCHANGED <<hleaf, hdefines, hsuper, hroot, hignore, hinclude,
                   hincdefines, out, visited>>
    /\ UNCHANGED exceptInherit

InheritNext ==
    \/ Render
    \/ RootFn
    \/ BlockFn
    \/ Return

\* The nearest ancestor of template k that has the block, NoBlock if none.
NearestDefiner(k) ==
    IF \E j \in 0..(k - 1) : hdefines[j]
    THEN CHOOSE j \in 0..(k - 1) :
            hdefines[j] /\ \A i \in (j + 1)..(k - 1) : ~hdefines[i]
    ELSE NoBlock

\* The ancestors root-ward of template j, root first: <<T0, ..., T[j-1]>>.
Ancestors(j) == [i \in 1..j |-> i - 1]

\* The definitions a chain of super() calls starting in template k runs.
RECURSIVE ExpectedVisits(_)
ExpectedVisits(k) ==
    <<k>> \o (IF hsuper[k] /\ NearestDefiner(k) # NoBlock
              THEN ExpectedVisits(NearestDefiner(k))
              ELSE <<>>)

\* C4: super() in template Tk's block invokes the block of the nearest
\* ancestor that defines it and hands it exactly the ancestors root-ward of
\* that one, so a chain of super() calls runs the defining ancestors from
\* the nearest to the root-most.
C4_SuperInvokesNearestAncestor ==
    /\ \A i \in 1..(Len(frames) - 1) :
          (frames[i].fn = "block" /\ frames[i + 1].fn = "block") =>
             /\ frames[i + 1].t = NearestDefiner(frames[i].t)
             /\ frames[i + 1].bases = Ancestors(frames[i + 1].t)
    /\ (hstatus = "returned" /\ visited # <<>>) =>
          /\ visited[1] = NearestDefiner(hleaf + 1)
          /\ visited = ExpectedVisits(visited[1])

\* Three levels, each calling super(): the blocks of T2, T1, T0 have run in
\* that order.
C4_Witness ==
    hstatus = "returned" /\ hleaf = 2 /\ visited = <<2, 1, 0>>

\* C5: no template's definition of the block runs twice in one render, and
\* super() called from a template's definition never invokes that same
\* definition.
C5_EachDefinitionRunsOnce ==
    /\ \A i, j \in 1..Len(visited) : i # j => visited[i] # visited[j]
    /\ \A i \in 1..(Len(frames) - 1) :
          (frames[i].fn = "block" /\ frames[i + 1].fn = "block") =>
             frames[i + 1].t # frames[i].t

\* The leaf and its parent do not override the block; the definition of a
\* template that is itself in the ancestor list called super().
C5_Witness ==
    /\ hstatus = "returned"
    /\ hleaf = 3 /\ ~hdefines[3] /\ ~hdefines[2]
    /\ visited = <<1, 0>>

\* C29: rendering a py:include does not change the ancestor list used for
\* block inheritance: the list a block function gets never holds the
\* included template, a chain of super() calls runs the definitions it runs
\* without the include, and the included template's definition is never
\* invoked by super().
C29_IncludeLeavesAncestorsAlone ==
    /\ \A i \in 1..Len(frames) :
          frames[i].fn = "block" =>
             \A j \in 1..Len(frames[i].bases) : frames[i].bases[j] # Included
    /\ \A i \in 1..Len(visited) : visited[i] # Included
    /\ (hstatus = "returned" /\ visited # <<>>) =>
          visited = ExpectedVisits(visited[1])

BlockFrames == {i \in 1..Len(frames) : frames[i].fn = "block"}

\* C30: every chain of super() calls terminates: each super() hands the
\* block it invokes a list strictly shorter than the one its caller got,
\* the calls nest at most as deep as the first block's list is long, the
\* list of a caller stays as it was handed over, and every render ends.
C30_SuperChainTerminates ==
    /\ [](\A i \in BlockFrames :
            /\ (i + 1) \in BlockFrames =>
                  Len(frames[i + 1].bases) < Len(frames[i].bases)
            /\ \A j \in BlockFrames :
                  j <= i => i - j <= Len(frames[j].bases))
    /\ [][\A i \in 1..Len(frames) :
             i <= Len(frames') => frames'[i].bases = frames[i].bases]_vars
    /\ (hstatus = "running") ~> (hstatus = "returned")

\* Four nested definitions, the innermost one reached by the third super().
C30_Witness ==
    /\ Cardinality(BlockFrames) = 4
    /\ Len(frames[Len(frames)].bases) = 0
    /\ CallsSuper(frames[Len(frames)].t)
    /\ frames[Len(frames)].pc = "wait"

\* The output of the chain when T0's py:extends element is taken out of T0:
\* T0 is then its text alone, and each template yields its text before it
\* delegates to its parent.
OutputWithoutExtends == [i \in 1..(hleaf + 1) |-> <<"text", hleaf + 1 - i>>]

\* C6: when the parent named by py:extends is missing, render with
\* ignore-missing ends without error with the output of the template
\* without the py:extends element, and render without ignore-missing ends
\* with TemplateNotFound.
C6_MissingParent ==
    hroot = "missing" =>
       /\ hignore => /\ hstatus # "TemplateNotFound"
                     /\ hstatus = "returned" => out = OutputWithoutExtends
       /\ ~hignore => hstatus # "returned"

C6_Witness ==
    /\ hroot = "missing" /\ hignore /\ hstatus = "returned"
    /\ hleaf >= 1 /\ hdefines[0] /\ hdefines[1]

(***************************************************************************)
(* compile.py: Compiler.compile_choosenode                                 *)
(*                                                                         *)
(* The generated code of a py:choose is                                    *)
(*     chosen = False                                                      *)
(*     choose = <test>            ("True" when the test is empty)          *)
(*     for each When child:       if chosen is False and choose == (test): *)
(*                                    chosen = True; body                  *)
(*     for each Otherwise child:  if chosen is False: body                 *)
(* in the source order of the children.  Values are integers; the booleans *)
(* are 0 and 1, as they compare in Python (True == 1).                     *)
(***************************************************************************)
EmptyTest == -1
PyTrue == 1
TestValues == 0..MaxVal

Children == {<<"when", v>> : v \in TestValues} \cup {<<"otherwise">>}

ChooseIdle ==
    /\ cchildren = <<>>
    /\ ctest = EmptyTest
    /\ cvar = 0
    /\ cflag = FALSE
    /\ ci = 0
    /\ crendered = {}
    /\ cout = <<>>
    /\ cevals = 0
    /\ cpc = "idle"

ChooseInit ==
    /\ cchildren \in SeqsUpTo(Children, MaxChildren)
    /\ ctest \in TestValues \cup {EmptyTest}
    /\ cvar = 0
    /\ cflag = FALSE
    /\ ci = 0
    /\ crendered = {}
    /\ cout = <<>>
    /\ cevals = 0
    /\ cpc = "idle"

\* compile.py 552-553 and 563: the value the choose variable gets.  A test
\* that is an expression is evaluated anew in every evaluation.
ChooseVarValues == IF ctest = EmptyTest THEN {PyTrue} ELSE TestValues

\* compile.py 558-568: chosen = False; choose = <test>
ChooseEnter ==
    /\ cpc \in {"idle", "done"}
    /\ cevals < MaxEvals
    /\ cevals' = cevals + 1
    /\ cflag' = FALSE
    /\ cvar' \in ChooseVarValues
    /\ crendered' = {}
    /\ cout' = <<>>
    /\ ci' = 1
    /\ cpc' = "children"
    /\ UNCHANGED <<cchildren, ctest>>
    /\ UNCHANGED exceptChoose

\* The test of a When without the check of the chosen flag.
WhenTest_NoFlag(chosen, choose, test) == choose = test

\* compile.py 572-574: chosen is False and choose == (test)
WhenTest(chosen, choose, test) == chosen = FALSE /\ choose = test

\* compile.py 583: chosen is False
OtherwiseTest(chosen) == chosen = FALSE

\* An Otherwise that, like a When, sets the chosen flag.
OtherwiseFlag_Sets(chosen) == TRUE

\* compile.py 582-590: the body of an Otherwise does not assign the flag.
OtherwiseFlag(chosen) == chosen

\* compile.py 570-592: the code of child ci.
ChooseChild ==
    /\ cpc = "children"
    /\ ci <= Len(cchildren)
    /\ LET child == cchildren[ci]
       IN  IF child[1] = "when"
           THEN IF WhenTest(cflag, cvar, child[2])
                THEN /\ cflag' = TRUE
                     /\ crendered' = crendered \cup {ci}
                     /\ cout' = Append(cout, ci)
                ELSE UNCHANGED <<cflag, crendered, cout>>
           ELSE IF OtherwiseTest(cflag)
                THEN /\ crendered' = crendered \cup {ci}
                     /\ cout' = Append(cout, ci)
                     /\ cflag' = OtherwiseFlag(cflag)
                ELSE UNCHANGED <<cflag, crendered, cout>>
    /\ ci' = ci + 1
    /\ UNCHANGED <<cchildren, ctest, cvar, cevals, cpc>>
    /\ UNCHANGED exceptChoose

\* The code of the last child has run.
ChooseExit ==
    /\ cpc = "children"
    /\ ci > Len(cchildren)
    /\ cpc' = "done"
    /\ UNCHANGED <<cchildren, ctest, cvar, cflag, ci, crendered, cout,
                   cevals>>
    /\ UNCHANGED exceptChoose

ChooseNext ==
    \/ ChooseEnter
    \/ ChooseChild
    \/ ChooseExit

IsWhen(i) == cchildren[i][1] = "when"
RenderedWhens == {i \in crendered : IsWhen(i)}
MatchingWhens == {i \in 1..Len(cchildren) : IsWhen(i) /\ cchildren[i][2] = cvar}

\* C10: in one evaluation of a choose with a test value at most one When
\* body is rendered, and it is the first When in source order whose value
\* equals the choose value.
C10_FirstMatchingWhenOnly ==
    (ctest # EmptyTest /\ cpc # "idle") =>
       /\ Cardinality(RenderedWhens) <= 1
       /\ \A i \in RenderedWhens :
             i \in MatchingWhens /\ \A j \in MatchingWhens : i <= j
       /\ (cpc = "done" /\ MatchingWhens # {}) => RenderedWhens # {}

RenderedOtherwises == crendered \ RenderedWhens

\* C28: within one evaluation of a choose, When and Otherwise exclude each
\* other: when a When body was rendered no Otherwise body was rendered,
\* whatever the source order of the children.
C28_WhenExcludesOtherwise ==
    cpc # "idle" => ~(RenderedWhens # {} /\ RenderedOtherwises # {})

\* Two Whens match; the evaluation is over and the first was rendered.
C10_Witness ==
    /\ ctest # EmptyTest /\ cpc = "done"
    /\ Cardinality(MatchingWhens) >= 2
    /\ RenderedWhens # {}

Otherwises == {i \in 1..Len(cchildren) : ~IsWhen(i)}

\* The indices of a set in increasing order.
RECURSIVE Ascending(_)
Ascending(S) ==
    IF S = {} THEN <<>>
    ELSE LET least == CHOOSE i \in S : \A j \in S : i <= j
         IN  <<least>> \o Ascending(S \ {least})

\* C11: when the evaluation of a choose is over and no When matched, the
\* output is the bodies of all its Otherwise children in source order.
C11_AllOtherwiseRendered ==
    (cpc = "done" /\ MatchingWhens = {}) => cout = Ascending(Otherwises)

\* No When matched and two Otherwise children were rendered.
C11_Witness ==
    /\ cpc = "done" /\ MatchingWhens = {}
    /\ \E i \in 1..Len(cchildren) : IsWhen(i)
    /\ Cardinality(Otherwises) >= 2
    /\ Len(cout) >= 2

\* bool(value) of Python for the values of the model
Truthy(value) == value # 0

TruthyWhens == {i \in 1..Len(cchildren) : IsWhen(i) /\ Truthy(cchildren[i][2])}

\* C12: when the evaluation of a choose with an empty test is over, the
\* When rendered is the first When in source order whose test value is
\* truthy.
C12_EmptyTestFirstTruthyWhen ==
    (ctest = EmptyTest /\ cpc = "done") =>
        RenderedWhens =
            IF TruthyWhens = {} THEN {}
            ELSE {CHOOSE i \in TruthyWhens : \A j \in TruthyWhens : i <= j}

(***************************************************************************)
(* loader.py: resolve_path, fs_loader and the candidate choice of          *)
(* TemplateLoader.load                                                     *)
(*                                                                         *)
(* A path is a string, modelled as the sequence of its characters, and the *)
(* functions of os.path the loader uses work on the characters as          *)
(* posixpath does.                                                         *)
(***************************************************************************)
NoPath == <<>>

\* str.startswith
startswith(str, prefix) ==
    Len(prefix) <= Len(str) /\ SubSeq(str, 1, Len(prefix)) = prefix

\* str.split("/")
RECURSIVE split(_)
split(str) ==
    IF \E i \in 1..Len(str) : str[i] = "/"
    THEN LET i == CHOOSE k \in 1..Len(str) :
                     str[k] = "/" /\ \A j \in 1..(k - 1) : str[j] # "/"
         IN  <<SubSeq(str, 1, i - 1)>> \o split(SubSeq(str, i + 1, Len(str)))
    ELSE <<str>>

\* "/".join(comps)
RECURSIVE slashjoin(_)
slashjoin(comps) ==
    IF comps = <<>> THEN <<>>
    ELSE IF Len(comps) = 1 THEN comps[1]
    ELSE comps[1] \o <<"/">> \o slashjoin(Tail(comps))

\* os.path.isabs
isabs(path) == startswith(path, <<"/">>)

DotDot == <<".", ".">>

\* The loop of posixpath.normpath over the components.
RECURSIVE normcomps(_, _, _)
normcomps(comps, new_comps, initial_slashes) ==
    IF comps = <<>> THEN new_comps
    ELSE LET comp == Head(comps)
             rest == Tail(comps)
         IN  IF comp = <<>> \/ comp = <<".">>
             THEN normcomps(rest, new_comps, initial_slashes)
             ELSE IF \/ comp # DotDot
                     \/ (~initial_slashes /\ new_comps = <<>>)
                     \/ (new_comps # <<>> /\ Last(new_comps) = DotDot)
                  THEN normcomps(rest, Append(new_comps, comp), initial_slashes)
                  ELSE IF new_comps # <<>>
                       THEN normcomps(rest, Front(new_comps), initial_slashes)
                       ELSE normcomps(rest, new_comps, initial_slashes)

\* os.path.normpath
normpath(path) ==
    IF path = <<>> THEN <<".">>
    ELSE LET initial == isabs(path)
             two == (startswith(path, <<"/", "/">>)
                        /\ ~startswith(path, <<"/", "/", "/">>))
             joined == slashjoin(normcomps(split(path), <<>>, initial))
             result == IF initial
                       THEN (IF two THEN <<"/", "/">> ELSE <<"/">>) \o joined
                       ELSE joined
         IN  IF result = <<>> THEN <<".">> ELSE result

\* os.path.join of two paths
pjoin(a, b) ==
    IF isabs(b) THEN b
    ELSE IF a = <<>> \/ Last(a) = "/" THEN a \o b
    ELSE a \o <<"/">> \o b

RECURSIVE rstripslash(_)
rstripslash(str) ==
    IF str # <<>> /\ Last(str) = "/" THEN rstripslash(Front(str)) ELSE str

\* os.path.dirname
dirname(path) ==
    LET slashes == {i \in 1..Len(path) : path[i] = "/"}
        i == IF slashes = {} THEN 0
             ELSE CHOOSE k \in slashes : \A j \in slashes : j <= k
        head == SubSeq(path, 1, i)
    IN  IF head # <<>> /\ rstripslash(head) # <<>>
        THEN rstripslash(head) ELSE head

\* The path components of os.path.abspath(path) that are not empty, for an
\* absolute path.
abscomps(path) == SelectSeq(split(normpath(path)), LAMBDA c : c # <<>>)

\* len(os.path.commonprefix([a, b])) on lists of components
commonlen(a, b) ==
    LET agree == {k \in 0..Len(a) :
                     k <= Len(b) /\ \A j \in 1..k : a[j] = b[j]}
    IN  CHOOSE k \in agree : \A j \in agree : j <= k

\* os.path.relpath(path, start), both absolute
relpath(path, start) ==
    LET start_list == abscomps(start)
        path_list == abscomps(path)
        i == commonlen(start_list, path_list)
        rel_list == [k \in 1..(Len(start_list) - i) |-> DotDot]
                        \o SubSeq(path_list, i + 1, Len(path_list))
    IN  IF rel_list = <<>> THEN <<".">> ELSE slashjoin(rel_list)

\* loader.search_path: one configured directory.
SearchPath == << <<"/", "t">> >>

\* The template files on disk.  /tt is a sibling directory of the
\* configured /t whose name begins with the same characters.
Files == { <<"/", "t", "/", "a">>,
           <<"/", "t", "/", "t", "/", "a">>,
           <<"/", "t", "t", "/", "a">>,
           <<"/", "a">> }

\* os.path.getmtime(filepath) does not raise OSError
Exists(filepath) == filepath \in Files

\* The path arguments of load: up to MaxSegments segments joined by "/",
\* relative or absolute.
Segments == {DotDot, <<".">>, <<"t">>, <<"t", "t">>, <<"a">>}
RequestPaths ==
    {slashjoin(cs) : cs \in SeqsUpTo(Segments, MaxSegments)}
        \cup {<<"/">> \o slashjoin(cs) : cs \in SeqsUpTo(Segments, MaxSegments)}

\* loader.py 305-309: the first search directory that relative_to starts
\* with, as a one-element or empty sequence.
RelativeRoot(search_paths, relative_to) ==
    LET hits == SelectSeq(search_paths, LAMBDA d : startswith(relative_to, d))
    IN  IF hits = <<>> THEN <<>> ELSE <<Head(hits)>>

\* loader.py 274-317: resolve_path, returning (search_paths, path)
resolve_path(search_paths, relative_to, path, allow_absolute_paths) ==
    LET load_relative ==
            /\ relative_to # NoPath
            /\ (startswith(path, <<".", "/">>)
                    \/ startswith(path, <<".", ".", "/">>))
        root == RelativeRoot(search_paths, relative_to)
        path1 == IF relative_to # NoPath /\ ~load_relative /\ root # <<>>
                 THEN pjoin(dirname(relpath(relative_to, root[1])), path)
                 ELSE path
        sp1 == IF isabs(path1) /\ allow_absolute_paths
               THEN << <<>> >> \o search_paths ELSE search_paths
        sp2 == IF load_relative
               THEN <<dirname(relative_to)>> \o sp1 ELSE sp1
    IN  [search_paths |-> sp2, path |-> normpath(path1)]

\* loader.py 263: any(filepath.startswith(sp) for sp in searchpath)
InSearchPath(filepath, searchpath) ==
    \E i \in 1..Len(searchpath) : startswith(filepath, searchpath[i])

\* loader.py 251-271: fs_loader, the file paths it yields, in order
fs_loader(filename, searchpath) ==
    LET filepaths == [i \in 1..Len(searchpath) |->
                         normpath(pjoin(searchpath[i], filename))]
    IN  SelectSeq(filepaths,
                  LAMBDA fp : InSearchPath(fp, searchpath) /\ Exists(fp))

\* The candidates in the order fs_loader yields them.
Candidates_NoReorder(filename, searchpath, relative_path) ==
    fs_loader(filename, searchpath)

\* loader.py 133-144: the candidates in the order load tries them: with a
\* relative_to, the loading template's own file goes last.
Candidates(filename, searchpath, relative_path) ==
    LET cands == fs_loader(filename, searchpath)
    IN  IF relative_path = NoPath THEN cands
        ELSE SelectSeq(cands, LAMBDA c : c # relative_path)
                \o SelectSeq(cands, LAMBDA c : c = relative_path)

PathIdle ==
    /\ preq = NoPath
    /\ prel = NoPath
    /\ pallow = FALSE
    /\ psearch = <<>>
    /\ ppath = NoPath
    /\ popened = NoPath
    /\ ppc = "idle"

\* The application calls loader.load(path) on a fresh loader.
PathInit ==
    /\ preq \in RequestPaths
    /\ prel = NoPath
    /\ pallow \in BOOLEAN
    /\ psearch = <<>>
    /\ ppath = NoPath
    /\ popened = NoPath
    /\ ppc = "call"

\* loader.py 101-178: load resolves the path, lists the candidates and
\* opens the first one (loader.py 156), or raises TemplateNotFound.
PathLoad ==
    /\ ppc = "call"
    /\ LET r == resolve_path(SearchPath, prel, preq, pallow)
           cands == Candidates(r.path, r.search_paths, prel)
       IN  /\ psearch' = r.search_paths
           /\ ppath' = r.path
           /\ IF cands = <<>>
              THEN popened' = NoPath /\ ppc' = "TemplateNotFound"
              ELSE popened' = Head(cands) /\ ppc' = "opened"
    /\ UNCHANGED <<preq, prel, pallow>>
    /\ UNCHANGED exceptPath

\* runtime.py 48-55: the template just loaded names another template
\* (py:extends, py:include, py:import): loader.load(src, relative_to=template)
PathLoadFrom ==
    /\ ppc = "opened"
    /\ preq' \in RequestPaths
    /\ prel' = popened
    /\ ppc' = "call"
    /\ UNCHANGED <<pallow, psearch, ppath, popened>>
    /\ UNCHANGED exceptPath

PathNext ==
    \/ PathLoad
    \/ PathLoadFrom

\* The file lies in the directory tree of a configured search directory.
InsideConfiguredRoot(filepath) ==
    \E i \in 1..Len(SearchPath) :
        LET sp == abscomps(SearchPath[i])
            fp == abscomps(filepath)
        IN  Len(sp) < Len(fp) /\ SubSeq(fp, 1, Len(sp)) = sp

\* C7: the file a load call opens lies inside a configured search
\* directory, unless allow_absolute_paths is set and the requested path is
\* absolute.
C7_OpenedFileInsideSearchPath ==
    ppc = "opened" =>
        \/ InsideConfiguredRoot(popened)
        \/ (pallow /\ isabs(preq))

\* The request of the latest call is relative to the loading template.
LoadRelative ==
    /\ prel # NoPath
    /\ (startswith(preq, <<".", "/">>) \/ startswith(preq, <<".", ".", "/">>))

\* The configured search path, with the loading template's own directory
\* in front of it for a request that starts with "./" or "../".
EffectiveSearchPath ==
    (IF LoadRelative THEN <<dirname(prel)>> ELSE <<>>) \o SearchPath

\* The requested path in the directories of the effective search path that
\* contain it, earliest first.
ContainingRequested ==
    SelectSeq([i \in 1..Len(EffectiveSearchPath) |->
                  normpath(pjoin(EffectiveSearchPath[i], preq))],
              Exists)

NoFile == 0
NoObject == 0
TemplateFiles == 1..(MaxImports + 1)
Objects == 1..MaxObjects
CacheKeys == TemplateFiles \X ({NoFile} \cup TemplateFiles)

\* compile.py 626-651: the href of the py:import of file f, NoFile if none
Imported(f) == IF f <= MaxImports THEN f + 1 ELSE NoFile

NoEntry == [template |-> NoObject, mtime |-> 0]
NoLevel2 == [digest |-> -1, template |-> NoObject]
NoTemplate == [filename |-> NoFile, source |-> -1, imported |-> NoObject]

LoaderIdle ==
    /\ mtime = [f \in TemplateFiles |-> 1]
    /\ content = [f \in TemplateFiles |-> 0]
    /\ clock = 1
    /\ cache = [k \in CacheKeys |-> NoEntry]
    /\ level2_cache = [f \in TemplateFiles |-> NoLevel2]
    /\ objs = [o \in Objects |-> NoTemplate]
    /\ nextid = 1
    /\ lfile = NoFile
    /\ lresult = NoObject
    /\ prevfile = NoFile
    /\ prevresult = NoObject
    /\ lfrom = NoObject
    /\ lsrc = NoFile
    /\ lstatus = "none"
    /\ lcount = 0

\* TemplateLoader.__init__: both caches empty.  The files were written
\* before, in any order, at the times 1..MaxInitialMtime.
LoaderInit ==
    /\ mtime \in [TemplateFiles -> 1..MaxInitialMtime]
    /\ content = [f \in TemplateFiles |-> 0]
    /\ clock = MaxInitialMtime
    /\ cache = [k \in CacheKeys |-> NoEntry]
    /\ level2_cache = [f \in TemplateFiles |-> NoLevel2]
    /\ objs = [o \in Objects |-> NoTemplate]
    /\ nextid = 1
    /\ lfile = NoFile
    /\ lresult = NoObject
    /\ prevfile = NoFile
    /\ prevresult = NoObject
    /\ lfrom = NoObject
    /\ lsrc = NoFile
    /\ lstatus = "none"
    /\ lcount = 0

\* hash(content).digest()
Digest(source) == source

\* The module members of a template that are templates: __piglet_template
\* (the template itself) and the alias its py:import bound.
Dependencies(templates, template) ==
    {template} \cup
        (IF templates[template].imported = NoObject
            THEN {}
            ELSE {templates[template].imported})

has_stale_dependencies(templates, cached_mtime, template) ==
    \E tmpl \in Dependencies(templates, template) :
        mtime[templates[tmpl].filename] > cached_mtime

\* Returns the loader state and the template found (NoObject for None).
get_template_from_level2_cache(L, digest, filename) ==
    LET entry == L.level2_cache[filename]
    IN  IF entry.template = NoObject
            THEN [L |-> L, template |-> NoObject]
        ELSE IF entry.digest # digest
            THEN [L |-> [L EXCEPT !.level2_cache[filename] = NoLevel2],
                  template |-> NoObject]
        ELSE [L |-> L, template |-> entry.template]

RECURSIVE load(_, _, _)
RECURSIVE NewTemplate(_, _)

\* template_cls(source=content, filename=candidate_path, loader=self):
\* the constructor executes the template module, and with it the
\* module-level py:import, runtime.load(__piglet_template, href).
NewTemplate(L, filename) ==
    LET self == L.nextid
        L1 == [L EXCEPT !.nextid = self + 1,
                        !.objs[self] = [filename |-> filename,
                                        source |-> content[filename],
                                        imported |-> NoObject]]
    IN  IF Imported(filename) = NoFile
            THEN [L |-> L1, template |-> self]
            ELSE LET r == load(L1, Imported(filename), filename)
                 IN  [L |-> [r.L EXCEPT !.objs[self].imported = r.template],
                      template |-> self]

\* TemplateLoader.load(path, relative_to): L is the loader state
\* (cache, level2_cache, objs, nextid), relative_path the file name of
\* relative_to or NoFile.  Returns the new state and the template.
load(L, path, relative_path) ==
    LET cache_key == <<path, relative_path>>
        cached == L.cache[cache_key].template
        cached_mtime == L.cache[cache_key].mtime
        fresh == IF cached = NoObject THEN FALSE
                 ELSE mtime[path] <= cached_mtime
        stale == IF fresh
                    THEN has_stale_dependencies(L.objs, cached_mtime, cached)
                    ELSE FALSE
    IN  IF fresh /\ ~stale
            THEN [L |-> L, template |-> cached]
            ELSE LET L1 == IF stale
                               THEN [L EXCEPT !.level2_cache[path] = NoLevel2]
                               ELSE L
                     digest == Digest(content[path])
                     l2 == get_template_from_level2_cache(L1, digest, path)
                     t == IF l2.template # NoObject
                              THEN l2
                              ELSE NewTemplate(l2.L, path)
                 IN  [L |-> [t.L EXCEPT
                                !.level2_cache[path] =
                                    [digest |-> digest,
                                     template |-> t.template],
                                !.cache[cache_key] =
                                    [template |-> t.template,
                                     mtime |-> mtime[path]]],
                      template |-> t.template]

LoaderState ==
    [cache |-> cache, level2_cache |-> level2_cache, objs |-> objs,
     nextid |-> nextid]

\* The application calls loader.load(path).
LoaderLoad ==
    \E path \in TemplateFiles :
        /\ nextid + MaxImports <= MaxObjects
        /\ LET r == load(LoaderState, path, NoFile)
           IN  /\ cache' = r.L.cache
               /\ level2_cache' = r.L.level2_cache
               /\ objs' = r.L.objs
               /\ nextid' = r.L.nextid
               /\ lresult' = r.template
        /\ lfile' = path
        /\ prevfile' = lfile
        /\ prevresult' = lresult
        /\ lfrom' = NoObject
        /\ lsrc' = NoFile
        /\ lstatus' = "none"
        /\ UNCHANGED <<mtime, content, clock, lcount>>
        /\ UNCHANGED exceptLoader

\* Somebody writes new content to a template file; its mtime advances.
LoaderEdit ==
    \E f \in TemplateFiles :
        /\ clock < MaxClock
        /\ clock' = clock + 1
        /\ mtime' = [mtime EXCEPT ![f] = clock + 1]
        /\ content' = [content EXCEPT ![f] = content[f] + 1]
        /\ lfile' = NoFile
        /\ lresult' = NoObject
        /\ prevfile' = NoFile
        /\ prevresult' = NoObject
        /\ lfrom' = NoObject
        /\ lsrc' = NoFile
        /\ lstatus' = "none"
        /\ UNCHANGED <<cache, level2_cache, objs, nextid, lcount>>
        /\ UNCHANGED exceptLoader

\* Somebody rewrites a template file with the content it has.
LoaderTouch ==
    \E f \in TemplateFiles :
        /\ clock < MaxClock
        /\ clock' = clock + 1
        /\ mtime' = [mtime EXCEPT ![f] = clock + 1]
        /\ lfile' = NoFile
        /\ lresult' = NoObject
        /\ prevfile' = NoFile
        /\ prevresult' = NoObject
        /\ lfrom' = NoObject
        /\ lsrc' = NoFile
        /\ lstatus' = "none"
        /\ UNCHANGED <<content, cache, level2_cache, objs, nextid, lcount>>
        /\ UNCHANGED exceptLoader

\* The Template objects the application holds: for every file, the one
\* its latest loader.load(path) returned.
Held == {cache[<<f, NoFile>>].template : f \in TemplateFiles} \ {NoObject}

\* runtime.py 48-58: the application renders a template it holds, and a
\* py:include in it that names the template's own file calls
\* load(relative_to, src); loader.load runs first, the identity test
\* "template is relative_to" after it.
RuntimeLoad ==
    \E relative_to \in Held :
      \E src \in {objs[relative_to].filename} :
        /\ nextid + MaxImports <= MaxObjects
        /\ lcount < MaxRuntimeLoads
        /\ lcount' = lcount + 1
        /\ LET r == load(LoaderState, src, objs[relative_to].filename)
           IN  /\ cache' = r.L.cache
               /\ level2_cache' = r.L.level2_cache
               /\ objs' = r.L.objs
               /\ nextid' = r.L.nextid
               /\ lstatus' = IF r.template = relative_to
                                 THEN "PigletError"
                                 ELSE "returned"
        /\ lfrom' = relative_to
        /\ lsrc' = src
        /\ lfile' = NoFile
        /\ lresult' = NoObject
        /\ prevfile' = NoFile
        /\ prevresult' = NoObject
        /\ UNCHANGED <<mtime, content, clock>>
        /\ UNCHANGED exceptLoader

LoaderNext ==
    \/ LoaderLoad
    \/ LoaderEdit
    \/ LoaderTouch

\* Loads by the application, edits of the files and loads issued by
\* rendered templates.
SelfLoadNext ==
    \/ LoaderLoad
    \/ LoaderEdit
    \/ RuntimeLoad

\* Rendering the template uses, along its chain of imports, templates
\* compiled from the content their files have now.
RECURSIVE ImportsCurrent(_)
ImportsCurrent(template) ==
    LET dep == objs[template].imported
    IN  IF dep = NoObject
            THEN TRUE
            ELSE /\ objs[dep].source = content[objs[dep].filename]
                 /\ ImportsCurrent(dep)

\* C8: the template a load call returns reflects the current content of
\* every file it depends on, directly or through a chain of imports, so
\* also of every such file modified before the call.
C8_ReloadReflectsModifiedDependencies ==
    lfile # NoFile => ImportsCurrent(lresult)

\* C9: a load call that follows a load call of the same path, with no
\* file modified in between, returns the same Template object.
C9_RepeatedLoadReturnsSameObject ==
    (lfile # NoFile /\ prevfile = lfile) => lresult = prevresult

\* C27: for one path, all entries of the primary cache whose templates
\* were built from the same file content refer to the same Template object,
\* whatever loads, edits and dependency-triggered reloads came before.
C27_OneTemplatePerContent ==
    \A k1, k2 \in CacheKeys :
        (/\ k1[1] = k2[1]
         /\ cache[k1].template # NoObject
         /\ cache[k2].template # NoObject
         /\ objs[cache[k1].template].source = objs[cache[k2].template].source)
            => cache[k1].template = cache[k2].template

\* C16: a load a template issues for its own file raises PigletError; no
\* template is returned to it.
C16_SelfLoadRaises ==
    (lfrom # NoObject /\ lsrc = objs[lfrom].filename)
        => lstatus = "PigletError"

(***************************************************************************)
(* parse.py: parse_html, parse_tt; parsers/html.py; parsers/text.py        *)
(*                                                                         *)
(* Both grammars are a pyparsing ZeroOrMore over a MatchFirst of           *)
(* alternatives, with leaveWhitespace(), and both are run with             *)
(* parseString(source) with parseAll left at its default False.  The       *)
(* grammars are modelled on the characters of HtmlChars and TtChars: the   *)
(* alternatives that need other characters (quotes, '=', ':', '-', '!',    *)
(* '?', '#', "script", "style", "end") cannot match and are left out.      *)
(***************************************************************************)
HtmlChars == {"a", "<", ">", "/", "&", ";", " "}
White == {" "}
TtChars == {"{", "%", "}", "i", "f"}
Alphanums == {"a", "i", "f"}

SourcesUpTo(S, n) == UNION {[1..k -> S] : k \in 0..n}

NoMatch == [ok |-> FALSE, loc |-> 0, item |-> <<>>]

\* A parse item: its class, its content or qname, and for a tag the
\* whitespace after the qname and the attributes.
Item(cls, text, white, attrlist) ==
    [type |-> cls, content |-> text, space |-> white, attrs |-> attrlist]

Match(loc, item) == [ok |-> TRUE, loc |-> loc, item |-> item]

\* pyparsing Literal: the string w stands at loc
Literal(s, loc, w) ==
    IF loc + Len(w) - 1 <= Len(s)
        THEN SubSeq(s, loc, loc + Len(w) - 1) = w
        ELSE FALSE

\* pyparsing Word / CharsNotIn / Regex [..]+ : the end of the longest run
\* of characters of C from loc on
RECURSIVE RunEnd(_, _, _)
RunEnd(s, loc, C) ==
    IF loc > Len(s) THEN loc
    ELSE IF s[loc] \in C THEN RunEnd(s, loc + 1, C)
    ELSE loc

\* parsers/html.py 134-135: text = OneOrMore(CharsNotIn("<&"))
html_text(s, loc) ==
    LET end == RunEnd(s, loc, HtmlChars \ {"<", "&"})
    IN  IF end > loc
            THEN Match(end, Item("Text", SubSeq(s, loc, end - 1), <<>>, <<>>))
            ELSE NoMatch

\* parsers/html.py 89-95: the end of qname from loc on (tag names are runs
\* of alphanumerics)
qname(s, loc) == RunEnd(s, loc, Alphanums)

\* parsers/html.py 86: the characters of an attribute name
AttributeNameChars == HtmlChars \ {" ", ">", "/"}

\* parsers/html.py 101-118 and 124: ZeroOrMore(attribute) from loc on.
\* Without '=' an attribute is a name and the whitespace after it
\* (space1; space2 and space3 are empty, value is None).
RECURSIVE attributes(_, _)
attributes(s, loc) ==
    LET nameend == RunEnd(s, loc, AttributeNameChars)
        end == RunEnd(s, nameend, White)
    IN  IF nameend = loc THEN [loc |-> loc, attrs |-> <<>>]
        ELSE LET rest == attributes(s, end)
             IN  [loc |-> rest.loc,
                  attrs |-> <<[name |-> SubSeq(s, loc, nameend - 1),
                               space1 |-> SubSeq(s, nameend, end - 1)]>>
                            \o rest.attrs]

\* parse.py 45: attrs = attr.ib(converter=OrderedDict): of the attributes
\* with one name the last is kept, at the place of the first.
RECURSIVE OrderedDict(_)
OrderedDict(pairs) ==
    IF pairs = <<>> THEN <<>>
    ELSE LET init == OrderedDict(Front(pairs))
             last == Last(pairs)
         IN  IF \E i \in 1..Len(init) : init[i].name = last.name
                 THEN [i \in 1..Len(init) |->
                          IF init[i].name = last.name THEN last ELSE init[i]]
                 ELSE Append(init, last)

\* parsers/html.py 120-129:
\* "<" + qname + Optional(White + ZeroOrMore(attribute)) + ">"
open_tag(s, loc) ==
    IF ~Literal(s, loc, <<"<">>) THEN NoMatch
    ELSE LET end == qname(s, loc + 1)
             spaceend == RunEnd(s, end, White)
             as == IF spaceend > end
                       THEN attributes(s, spaceend)
                       ELSE [loc |-> end, attrs |-> <<>>]
         IN  IF end > loc + 1 /\ Literal(s, as.loc, <<">">>)
                 THEN Match(as.loc + 1,
                            Item("OpenTag", SubSeq(s, loc + 1, end - 1),
                                 SubSeq(s, end, spaceend - 1),
                                 OrderedDict(as.attrs)))
                 ELSE NoMatch

\* parsers/html.py 131-132: "</" + qname + ">"
close_tag(s, loc) ==
    IF ~Literal(s, loc, <<"<", "/">>) THEN NoMatch
    ELSE LET end == qname(s, loc + 2)
         IN  IF end > loc + 2 /\ Literal(s, end, <<">">>)
                 THEN Match(end + 1,
                            Item("CloseTag", SubSeq(s, loc + 2, end - 1),
                                 <<>>, <<>>))
                 ELSE NoMatch

\* parsers/html.py 152-160:
\* "<" + qname + Optional(White) + ZeroOrMore(attribute) + "/>"
open_close_tag(s, loc) ==
    IF ~Literal(s, loc, <<"<">>) THEN NoMatch
    ELSE LET end == qname(s, loc + 1)
             spaceend == RunEnd(s, end, White)
             as == attributes(s, spaceend)
         IN  IF end > loc + 1 /\ Literal(s, as.loc, <<"/", ">">>)
                 THEN Match(as.loc + 2,
                            Item("OpenCloseTag", SubSeq(s, loc + 1, end - 1),
                                 SubSeq(s, end, spaceend - 1),
                                 OrderedDict(as.attrs)))
                 ELSE NoMatch

\* parsers/html.py 170-178: "&" + Word(alphas) + ";"
entity(s, loc) ==
    IF ~Literal(s, loc, <<"&">>) THEN NoMatch
    ELSE LET end == RunEnd(s, loc + 1, Alphanums)
         IN  IF end > loc + 1 /\ Literal(s, end, <<";">>)
                 THEN Match(end + 1,
                            Item("Entity", SubSeq(s, loc, end), <<>>, <<>>))
                 ELSE NoMatch

\* parsers/html.py 199-210: the MatchFirst of the alternatives, in order
html(s, loc) ==
    IF html_text(s, loc).ok THEN html_text(s, loc)
    ELSE IF open_tag(s, loc).ok THEN open_tag(s, loc)
    ELSE IF close_tag(s, loc).ok THEN close_tag(s, loc)
    ELSE IF open_close_tag(s, loc).ok THEN open_close_tag(s, loc)
    ELSE entity(s, loc)

\* parsers/text.py 106-108:
\* text = OneOrMore(OneOrMore(CharsNotIn("{")) | (L("{") + ~L("%")))
RECURSIVE TtTextEnd(_, _)
TtTextEnd(s, loc) ==
    IF loc > Len(s) THEN loc
    ELSE IF s[loc] # "{" THEN TtTextEnd(s, loc + 1)
    ELSE IF Literal(s, loc + 1, <<"%">>) THEN loc
    ELSE TtTextEnd(s, loc + 1)

tt_text(s, loc) ==
    LET end == TtTextEnd(s, loc)
    IN  IF end > loc
            THEN Match(end, Item("Text", SubSeq(s, loc, end - 1), <<>>, <<>>))
            ELSE NoMatch

\* parsers/text.py 38-52: the directive names, in the order they are tried
directive_name ==
    << <<"f", "o", "r">>, <<"i", "f">>,
       <<"e", "x", "t", "e", "n", "d", "s">>, <<"b", "l", "o", "c", "k">>,
       <<"d", "e", "f">>, <<"i", "m", "p", "o", "r", "t">>,
       <<"i", "n", "c", "l", "u", "d", "e">>, <<"w", "i", "t", "h">>,
       <<"c", "h", "o", "o", "s", "e">>, <<"w", "h", "e", "n">>,
       <<"e", "l", "s", "e">>,
       <<"t", "r", "a", "n", "s", "n", "a", "m", "e">>,
       <<"t", "r", "a", "n", "s">> >>

\* parsers/text.py 73-78: the end of args from loc on: runs of characters
\* other than '%', and '%' not followed by '}'
RECURSIVE args(_, _)
args(s, loc) ==
    IF loc > Len(s) THEN loc
    ELSE IF s[loc] # "%" THEN args(s, loc + 1)
    ELSE IF Literal(s, loc + 1, <<"}">>) THEN loc
    ELSE args(s, loc + 1)

\* parsers/text.py 83-92: "{%" + name + args + "%}"
open_directive(s, loc) ==
    IF ~Literal(s, loc, <<"{", "%">>) THEN NoMatch
    ELSE LET names == SelectSeq(directive_name,
                                LAMBDA n : Literal(s, loc + 2, n))
         IN  IF names = <<>> THEN NoMatch
             ELSE LET name == Head(names)
                      end == args(s, loc + 2 + Len(name))
                  IN  IF Literal(s, end, <<"%", "}">>)
                          THEN Match(end + 2,
                                 Item("Statement", name, <<>>,
                                      SubSeq(s, loc + 2 + Len(name),
                                             end - 1)))
                          ELSE NoMatch

\* parsers/text.py 110: text_template = ZeroOrMore(text | directive)
text_template(s, loc) ==
    IF tt_text(s, loc).ok THEN tt_text(s, loc) ELSE open_directive(s, loc)

ParseIdle ==
    /\ tsource = <<>>
    /\ tgrammar = "html"
    /\ tloc = 1
    /\ tokens = <<>>
    /\ toutput = <<>>
    /\ tstarts = <<>>
    /\ tpositions = <<>>
    /\ tpc = "idle"

\* parse_html(source) or parse_tt(source) has been called.
ParseInit ==
    /\ \/ tgrammar = "html" /\ tsource \in SourcesUpTo(HtmlChars, MaxHtmlSource)
       \/ tgrammar = "tt" /\ tsource \in SourcesUpTo(TtChars, MaxTtSource)
    /\ tloc = 1
    /\ tokens = <<>>
    /\ toutput = <<>>
    /\ tstarts = <<>>
    /\ tpositions = <<>>
    /\ tpc = "parsing"

Alternative(s, loc) ==
    IF tgrammar = "html" THEN html(s, loc) ELSE text_template(s, loc)

\* ZeroOrMore: one more alternative matches at loc.
ParseItem ==
    /\ tpc = "parsing"
    /\ Alternative(tsource, tloc).ok
    /\ tokens' = Append(tokens, Alternative(tsource, tloc).item)
    /\ tloc' = Alternative(tsource, tloc).loc
    /\ tstarts' = Append(tstarts, tloc)
    /\ UNCHANGED <<tsource, tgrammar, toutput, tpositions, tpc>>
    /\ UNCHANGED exceptParse

\* parse.py 76-83: the source of an attribute without a value
AttributeSource(attribute) == attribute.name \o attribute.space1

RECURSIVE AttributesSource(_)
AttributesSource(attrlist) ==
    IF attrlist = <<>> THEN <<>>
    ELSE AttributeSource(Head(attrlist)) \o AttributesSource(Tail(attrlist))

\* str() of the pyparsing group a Statement holds as args: the list of its
\* strings as Python writes a list.
ArgsStr(argtext) ==
    IF argtext = <<>> THEN <<"[", "]">>
    ELSE <<"[", "'">> \o argtext \o <<"'", "]">>

\* parse.py 52-55, 98-111, 128-139 and compilett.py 41-43: the source
\* property of an item.  That of an OpenCloseTag is
\* "<{}{}{}>".format(qname, space, attrs).
source(item) ==
    IF item.type = "OpenTag"
        THEN <<"<">> \o item.content \o item.space \o
             AttributesSource(item.attrs) \o <<">">>
    ELSE IF item.type = "OpenCloseTag"
        THEN <<"<">> \o item.content \o item.space \o
             AttributesSource(item.attrs) \o <<">">>
    ELSE IF item.type = "CloseTag"
        THEN <<"<", "/">> \o item.content \o <<">">>
    ELSE IF item.type = "Statement"
        THEN <<"{", "%">> \o item.content \o ArgsStr(item.attrs) \o
             <<"%", "}">>
    ELSE item.content

\* The place of the last newline in text, 0 if it has none.
LastNewline(text) ==
    IF \E i \in 1..Len(text) : text[i] = "\n"
    THEN CHOOSE i \in 1..Len(text) :
            text[i] = "\n" /\ \A j \in (i + 1)..Len(text) : text[j] # "\n"
    ELSE 0

\* Position.advance(text): the (line, char) cursor moved over text; a
\* newline starts the next line at char 1.
advance(pos, text) ==
    IF LastNewline(text) = 0 THEN <<pos[1], pos[2] + Len(text)>>
    ELSE <<pos[1] + Cardinality({i \in 1..Len(text) : text[i] = "\n"}),
           Len(text) - LastNewline(text) + 1>>

\* parse.py 194-201 with 29-31: add_positions gives every item the cursor
\* and moves the cursor over the item's source.
RECURSIVE add_positions(_, _)
add_positions(parse_result, cursor) ==
    IF parse_result = <<>> THEN <<>>
    ELSE <<cursor>> \o
         add_positions(Tail(parse_result),
                       advance(cursor, source(Head(parse_result))))

\* ZeroOrMore ends where no alternative matches, which is not a failure;
\* parseString returns the items matched so far (parse.py 172 and 180: no
\* parseAll), and parse_html / parse_tt return them with the positions
\* add_positions gives them.
ParseReturn ==
    /\ tpc = "parsing"
    /\ ~Alternative(tsource, tloc).ok
    /\ tpc' = "returned"
    /\ tpositions' = add_positions(tokens, <<1, 1>>)
    /\ UNCHANGED <<tsource, tgrammar, tloc, tokens, toutput, tstarts>>
    /\ UNCHANGED exceptParse

\* compilexml.py 436-489: make_dom accepts the items when every CloseTag
\* closes the innermost open element and no element is left open.  stack
\* holds the qnames of the open elements below the root Fragment.
RECURSIVE make_dom(_, _, _)
make_dom(parse_result, i, stack) ==
    IF i > Len(parse_result) THEN stack = <<>>
    ELSE LET item == parse_result[i]
         IN  IF item.type = "OpenTag"
                 THEN make_dom(parse_result, i + 1, Append(stack, item.content))
             ELSE IF item.type = "CloseTag"
                 THEN IF stack = <<>> THEN FALSE
                      ELSE IF Last(stack) # item.content THEN FALSE
                      ELSE make_dom(parse_result, i + 1, Front(stack))
             ELSE make_dom(parse_result, i + 1, stack)

IsElement(item) == item.type \in {"OpenTag", "OpenCloseTag"}

\* compilexml.py 838-849: _compile_attr interpolates the value of every
\* attribute; for an attribute without a value that is
\* parse_interpolations(None), which raises.
CompileRaises(parse_result) ==
    \E i \in 1..Len(parse_result) :
        IsElement(parse_result[i]) /\ parse_result[i].attrs # <<>>

\* compilexml.py 424-425 (get_directives): an element that has no
\* attributes left loses the whitespace after its qname.
RemainingSpace(item) == IF item.attrs = <<>> THEN <<>> ELSE item.space

\* compilexml.py 758-835, 878-911 and 697-726: the text an item of a
\* template without directives and interpolations is compiled to.
ItemText(item) ==
    IF item.type = "OpenTag"
        THEN <<"<">> \o item.content \o RemainingSpace(item) \o <<">">>
    ELSE IF item.type = "OpenCloseTag"
        THEN <<"<">> \o item.content \o RemainingSpace(item) \o <<"/", ">">>
    ELSE IF item.type = "CloseTag"
        THEN <<"<", "/">> \o item.content \o <<">">>
    ELSE item.content

\* template.py 123-124: "".join(map(str, self(context)))
RECURSIVE Rendered(_)
Rendered(parse_result) ==
    IF parse_result = <<>> THEN <<>>
    ELSE ItemText(Head(parse_result)) \o Rendered(Tail(parse_result))

\* HTMLTemplate(source).render(context): the constructor compiles the
\* items parse_html returned (template.py 151-153, compilexml.py 624-633)
\* and render joins the output of the compiled template.
RenderSource ==
    /\ tpc = "returned"
    /\ tgrammar = "html"
    /\ IF ~make_dom(tokens, 1, <<>>)
           THEN tpc' = "PigletParseError" /\ toutput' = <<>>
       ELSE IF CompileRaises(tokens)
           THEN tpc' = "raised" /\ toutput' = <<>>
       ELSE tpc' = "rendered" /\ toutput' = Rendered(tokens)
    /\ UNCHANGED <<tsource, tgrammar, tloc, tokens, tstarts, tpositions>>
    /\ UNCHANGED exceptParse

ParseNext ==
    \/ ParseItem
    \/ ParseReturn
    \/ RenderSource

\* C13: a token sequence that parse_html or parse_tt returns accounts for
\* every character of the source up to its end.
C13_ReturnedTokensCoverSource ==
    tpc = "returned" => tloc = Len(tsource) + 1

\* The (line, char) of the place loc of the source.
PositionOf(loc) == advance(<<1, 1>>, SubSeq(tsource, 1, loc - 1))

\* C25: every item parse_html and parse_tt return carries the 1-based
\* (line, char) of the place in the source where its text begins: the first
\* is at (1, 1), each later one lies behind its predecessor by exactly the
\* predecessor's text, and the positions never decrease.
C25_PositionsAreSourcePlaces ==
    tpc \notin {"idle", "parsing"} =>
       /\ Len(tpositions) = Len(tokens)
       /\ \A i \in 1..Len(tokens) : tpositions[i] = PositionOf(tstarts[i])
       /\ \A i \in 1..(Len(tokens) - 1) :
             \/ tpositions[i][1] < tpositions[i + 1][1]
             \/ /\ tpositions[i][1] = tpositions[i + 1][1]
                /\ tpositions[i][2] <= tpositions[i + 1][2]

\* C14: when a markup source without directives and interpolations is
\* parsed to its end and render returns, the string returned equals the
\* source, character for character.
C14_RenderIsIdentity ==
    (tgrammar = "html" /\ tpc = "rendered" /\ tloc = Len(tsource) + 1)
        => toutput = tsource

(***************************************************************************)
(* loader.py: TemplateLoader.load over several search directories          *)
(*                                                                         *)
(* The loader has the default auto_reload=False and no cache_dir.  Its     *)
(* search path is the directories 1..MaxDirs in this order; the template   *)
(* files lie directly in them, so a file is a pair (directory, name) and   *)
(* resolve_path leaves a plain name as it is.  No file is written while    *)
(* the loader lives.  The content of a file is a number and its digest is  *)
(* that number.                                                            *)
(***************************************************************************)
SearchDirs == 1..MaxDirs
TemplateNames == 1..MaxNames
SearchFiles == SearchDirs \X TemplateNames
Missing == -1
Contents == 0..1
NoSearchFile == <<0, 0>>
SearchKeys == TemplateNames \X ({NoSearchFile} \cup SearchFiles)

SearchIdle ==
    /\ sfiles = [f \in SearchFiles |-> Missing]
    /\ scache = [k \in SearchKeys |-> NoObject]
    /\ slevel2 = [n \in TemplateNames |-> NoLevel2]
    /\ sobjs = <<>>
    /\ sname = 0
    /\ sfrom = NoObject
    /\ sselected = NoSearchFile
    /\ sresult = NoObject
    /\ spc = "idle"

\* TemplateLoader.__init__: both caches empty, over any set of files.
SearchInit ==
    /\ sfiles \in [SearchFiles -> {Missing} \cup Contents]
    /\ scache = [k \in SearchKeys |-> NoObject]
    /\ slevel2 = [n \in TemplateNames |-> NoLevel2]
    /\ sobjs = <<>>
    /\ sname = 0
    /\ sfrom = NoObject
    /\ sselected = NoSearchFile
    /\ sresult = NoObject
    /\ spc = "idle"

\* loader.py 251-271: fs_loader yields, in search-path order, the files
\* named filename that exist.
RECURSIVE search_fs_loader(_, _)
search_fs_loader(filename, d) ==
    IF d > MaxDirs THEN <<>>
    ELSE (IF sfiles[<<d, filename>>] # Missing
             THEN << <<d, filename>> >> ELSE <<>>)
            \o search_fs_loader(filename, d + 1)

\* loader.py 133-142: with a relative_to, the candidates that are not the
\* loading template's own file come first.
candidates(path, relative_path) ==
    LET found == search_fs_loader(path, 1)
    IN  IF relative_path = NoSearchFile THEN found
        ELSE SelectSeq(found, LAMBDA c : c # relative_path)
                \o SelectSeq(found, LAMBDA c : c = relative_path)

\* relative_to.filename, or None
RelativePath(relative_to) ==
    IF relative_to = NoObject THEN NoSearchFile
    ELSE sobjs[relative_to].filename

\* loader.py 101-178: load(path, relative_to).  The result has the new
\* caches and objects and the template returned (NoObject when
\* TemplateNotFound is raised).
SearchLoadResult(path, relative_to) ==
    LET relative_path == RelativePath(relative_to)
        cache_key == <<path, relative_path>>
        cached == scache[cache_key]
        cands == candidates(path, relative_path)
        same == [cache |-> scache, level2 |-> slevel2, objs |-> sobjs,
                 template |-> cached]
    IN  IF cached # NoObject THEN same
        ELSE IF cands = <<>> THEN same
        ELSE LET candidate_path == Head(cands)
                 digest == Digest(sfiles[candidate_path])
                 entry == slevel2[path]
                 hit == entry.template # NoObject /\ entry.digest = digest
                 template == IF hit THEN entry.template ELSE Len(sobjs) + 1
                 objs1 == IF hit THEN sobjs
                          ELSE Append(sobjs,
                                      [filename |-> candidate_path,
                                       source |-> sfiles[candidate_path]])
             IN  [cache |-> [scache EXCEPT ![cache_key] = template],
                  level2 |-> [slevel2 EXCEPT ![path] =
                                 [digest |-> digest, template |-> template]],
                  objs |-> objs1,
                  template |-> template]

\* The file the search path selects for load(path, relative_to): the first
\* candidate.
Selected(path, relative_to) ==
    LET cands == candidates(path, RelativePath(relative_to))
    IN  IF cands = <<>> THEN NoSearchFile ELSE Head(cands)

\* The application calls loader.load(path).
SearchLoad ==
    \E path \in TemplateNames :
        /\ Len(sobjs) < MaxTemplates
        /\ LET r == SearchLoadResult(path, NoObject)
           IN  /\ scache' = r.cache
               /\ slevel2' = r.level2
               /\ sobjs' = r.objs
               /\ sresult' = r.template
               /\ spc' = IF r.template = NoObject
                            THEN "TemplateNotFound" ELSE "returned"
        /\ sname' = path
        /\ sfrom' = NoObject
        /\ sselected' = Selected(path, NoObject)
        /\ UNCHANGED sfiles
        /\ UNCHANGED exceptSearch

\* runtime.py 48-58: a template built by the loader names a template
\* (py:extends, py:include, py:import): loader.load(src, relative_to), then
\* the test "template is relative_to".
SearchLoadFrom ==
    \E relative_to \in 1..Len(sobjs), src \in TemplateNames :
        /\ Len(sobjs) < MaxTemplates
        /\ LET r == SearchLoadResult(src, relative_to)
           IN  /\ scache' = r.cache
               /\ slevel2' = r.level2
               /\ sobjs' = r.objs
               /\ sresult' = r.template
               /\ spc' = IF r.template = NoObject THEN "TemplateNotFound"
                         ELSE IF r.template = relative_to THEN "PigletError"
                         ELSE "returned"
        /\ sname' = src
        /\ sfrom' = relative_to
        /\ sselected' = Selected(src, relative_to)
        /\ UNCHANGED sfiles
        /\ UNCHANGED exceptSearch

SearchNext ==
    \/ SearchLoad
    \/ SearchLoadFrom

\* The candidates of the latest call that are not the loading template's
\* own file.
OtherCandidates ==
    SelectSeq(search_fs_loader(sname, 1),
              LAMBDA c : c # RelativePath(sfrom))

\* C17: when a template loads a name and files of that name other than
\* its own exist in the search path, the load returns the template of
\* the first of them in search-path order, not the loading template's
\* own file.
C17_OwnFileTriedLast ==
    (sfrom # NoObject /\ sresult # NoObject /\ OtherCandidates # <<>>)
        => sobjs[sresult].filename = Head(OtherCandidates)

\* C19: the Template object a load call returns has as its filename the
\* file the search path selected for that call.
C19_ReturnedFilenameIsSelectedFile ==
    sresult # NoObject => sobjs[sresult].filename = sselected

(***************************************************************************)
(* runtime.py: munge_exception_messages; compile.py:                       *)
(* Compiler.annotate_runtime_errors                                        *)
(*                                                                         *)
(* The code in progress is a stack of frames: a render (Template.__call__  *)
(* draining munge_exception_messages) or a template statement inside it.   *)
(* A statement is an interpolation, a py:if, a py:for or a py:include; a   *)
(* py:include runs the statements of another file inside the same render,  *)
(* and a callable inside an interpolation may start a nested render.  A    *)
(* frame records its kind, the file and line of the statement (line 0 for  *)
(* a render) and the file whose code runs inside it.                       *)
(***************************************************************************)
ExcFiles == 1..MaxExcFiles
ExcKinds == {"interpolate", "if", "for", "include"}
ExcClasses == {"ZeroDivisionError", "UserError", "TemplateNotFound"}
NoException ==
    [cls |-> "none", mro |-> <<>>, origin |-> <<0, 0>>, inrender |-> 0,
     annotated |-> FALSE, by |-> 0, reconstructed |-> FALSE]

\* compile.py 500, 599, 623: the code of py:if, py:for and interpolations
\* goes through annotate_runtime_errors; compile.py 439-494: the code of
\* py:include and py:extends does not.
Wrapped(kind) == kind # "include"

\* exc.__class__ = AnnotatedException raises TypeError for an instance of a
\* built-in class (runtime.py 200-206).
IsBuiltin(cls) == cls = "ZeroDivisionError"

\* rtdata.context[-1]: the mapping of the innermost render in progress, as
\* its index in the frames (0: none)
InnermostRender(stack) ==
    LET rs == {i \in 1..Len(stack) : stack[i].kind = "render"}
    IN  IF rs = {} THEN 0 ELSE CHOOSE i \in rs : \A j \in rs : j <= i

ExcIdle ==
    /\ xframes = <<>>
    /\ xlocations = [i \in 1..MaxNesting |-> <<>>]
    /\ xexc = NoException
    /\ xannotations = 0
    /\ xpc = "idle"

ExcInit ==
    /\ xframes = <<>>
    /\ xlocations = [i \in 1..MaxNesting |-> <<>>]
    /\ xexc = NoException
    /\ xannotations = 0
    /\ xpc = "running"

\* template.py 82-95 and runtime.py 168-169: a render starts, from the
\* application or from a callable inside an interpolation; its mapping gets
\* an empty __piglet_exc_locations.
ExcEnterRender ==
    /\ xpc = "running"
    /\ Len(xframes) < MaxNesting
    /\ IF xframes = <<>> THEN TRUE ELSE Last(xframes).kind = "interpolate"
    /\ \E f \in ExcFiles :
          xframes' = Append(xframes,
                            [kind |-> "render", file |-> f, line |-> 0,
                             inner |-> f])
    /\ xlocations' = [xlocations EXCEPT ![Len(xframes) + 1] = <<>>]
    /\ UNCHANGED <<xexc, xannotations, xpc>>
    /\ UNCHANGED exceptExc

\* The code of a statement of the running file starts, directly in a
\* render or inside a py:if, a py:for or an included file.
ExcEnterStatement ==
    /\ xpc = "running"
    /\ xframes # <<>>
    /\ Len(xframes) < MaxNesting
    /\ Last(xframes).kind # "interpolate"
    /\ \E kind \in ExcKinds, line \in 1..MaxLine, target \in ExcFiles :
          LET file == Last(xframes).inner
          IN  /\ IF kind = "include" THEN target # file ELSE target = file
              /\ xframes' = Append(xframes,
                                   [kind |-> kind, file |-> file,
                                    line |-> line, inner |-> target])
    /\ UNCHANGED <<xlocations, xexc, xannotations, xpc>>
    /\ UNCHANGED exceptExc

\* The innermost statement raises: the expression of an interpolation, the
\* test of a py:if, the iterable of a py:for, or runtime.load of a
\* py:include (runtime.py 48-58, loader.py 178).
ExcRaise ==
    /\ xpc = "running"
    /\ xframes # <<>>
    /\ Last(xframes).kind # "render"
    /\ \E cls \in ExcClasses :
          /\ (cls = "TemplateNotFound") <=> (Last(xframes).kind = "include")
          /\ xexc' = [cls |-> cls, mro |-> <<cls>>,
                      origin |-> <<Last(xframes).file, Last(xframes).line>>,
                      inrender |-> InnermostRender(xframes),
                      annotated |-> FALSE, by |-> 0,
                      reconstructed |-> FALSE]
    /\ xannotations' = 0
    /\ xpc' = "unwinding"
    /\ UNCHANGED <<xframes, xlocations>>
    /\ UNCHANGED exceptExc

\* compile.py 942-966: the exception leaves a statement; the handler that
\* annotate_runtime_errors put around its code, if the statement has one,
\* appends (filename, line) to the __piglet_exc_locations of
\* rtdata.context[-1] and re-raises.
ExcHandler ==
    /\ xpc = "unwinding"
    /\ xframes # <<>>
    /\ Last(xframes).kind # "render"
    /\ xlocations' =
          IF Wrapped(Last(xframes).kind)
          THEN [xlocations EXCEPT ![InnermostRender(xframes)] =
                   Append(@, <<Last(xframes).file, Last(xframes).line>>)]
          ELSE xlocations
    /\ xframes' = Front(xframes)
    /\ UNCHANGED <<xexc, xannotations, xpc>>
    /\ UNCHANGED exceptExc

\* runtime.py 168-209 and template.py 96-100: the exception leaves the
\* content of a render.  An annotated exception is re-raised as it is;
\* otherwise its class becomes a subclass of its class, of the same name,
\* whose __str__ reads the __piglet_exc_locations of this render's mapping
\* (a new instance is made when the class cannot be assigned).
ExcMunge ==
    /\ xpc = "unwinding"
    /\ xframes # <<>>
    /\ Last(xframes).kind = "render"
    /\ IF xexc.annotated
       THEN UNCHANGED <<xexc, xannotations>>
       ELSE /\ xexc' = [xexc EXCEPT
                           !.mro = <<"AnnotatedException">> \o @,
                           !.annotated = TRUE,
                           !.by = Len(xframes),
                           !.reconstructed = IsBuiltin(xexc.cls)]
            /\ xannotations' = xannotations + 1
    /\ xframes' = Front(xframes)
    /\ xpc' = IF Len(xframes) = 1 THEN "propagated" ELSE "unwinding"
    /\ UNCHANGED xlocations
    /\ UNCHANGED exceptExc

ExcNext ==
    \/ ExcEnterRender
    \/ ExcEnterStatement
    \/ ExcRaise
    \/ ExcHandler
    \/ ExcMunge

\* The locations str(exc) prints after "Exception originated in code
\* starting at" (runtime.py 180-189).
MessageLocations ==
    IF xexc.by = 0 THEN <<>> ELSE xlocations[xexc.by]

\* C20: an exception that has left the outermost render is an instance of
\* its original class, was annotated exactly once, by the innermost render
\* it passed through, and its message names first the file and line of
\* the template code it originated in.
C20_AnnotatedOnceWithOrigin ==
    xpc = "propagated" =>
        /\ \E i \in 1..Len(xexc.mro) : xexc.mro[i] = xexc.cls
        /\ xannotations = 1
        /\ xexc.by = xexc.inrender
        /\ MessageLocations # <<>>
        /\ Head(MessageLocations) = xexc.origin

(***************************************************************************)
(* template.py: BaseTemplate.__call__ as a generator the caller drains     *)
(*                                                                         *)
(* template(context) returns a generator; nothing runs until the first    *)
(* next().  The caller may hold several such generators on one thread and *)
(* advance them in any order.  The mapping of generator g is identified    *)
(* with g.  Every compiled template function starts with                   *)
(* __piglet_ctx = __piglet_rtdata.context[-1].                             *)
(***************************************************************************)
Generators == 1..MaxGenerators
NoStep == <<"none", 0>>

GenIdle ==
    /\ gcontext = <<>>
    /\ gpc = [g \in Generators |-> "done"]
    /\ gread = [g \in Generators |-> 0]
    /\ gpopped = [g \in Generators |-> 0]
    /\ gresumes = [g \in Generators |-> 0]
    /\ gprev = NoStep
    /\ glast = NoStep

GenInit ==
    /\ gcontext = <<>>
    /\ gpc = [g \in Generators |-> "new"]
    /\ gread = [g \in Generators |-> 0]
    /\ gpopped = [g \in Generators |-> 0]
    /\ gresumes = [g \in Generators |-> 0]
    /\ gprev = NoStep
    /\ glast = NoStep

\* A template function that takes the outermost entry of the stack.
InnermostContext_Outermost(stack) == stack[1]

\* compile.py 1066-1076: __piglet_ctx = __piglet_rtdata.context[-1]
InnermostContext(stack) == Last(stack)

\* template.py 82-98: the first next() pushes the mapping, calls the root
\* function and runs it to its first yield; the root function reads the
\* innermost mapping on entry.
GenStart(g) ==
    /\ gpc[g] = "new"
    /\ gcontext' = Append(gcontext, g)
    /\ gread' = [gread EXCEPT ![g] = InnermostContext(Append(gcontext, g))]
    /\ gpc' = [gpc EXCEPT ![g] = "suspended"]
    /\ gprev' = glast
    /\ glast' = <<"start", g>>
    /\ UNCHANGED <<gpopped, gresumes>>
    /\ UNCHANGED exceptGen

\* template.py 96-98: a later next() resumes the content; on the way to the
\* next yield it calls a template function (a py:def or block function),
\* which reads the innermost mapping on entry.
GenResume(g) ==
    /\ gpc[g] = "suspended"
    /\ gresumes[g] < MaxResumes
    /\ gresumes' = [gresumes EXCEPT ![g] = @ + 1]
    /\ gread' = [gread EXCEPT ![g] = InnermostContext(gcontext)]
    /\ gprev' = glast
    /\ glast' = <<"resume", g>>
    /\ UNCHANGED <<gcontext, gpc, gpopped>>
    /\ UNCHANGED exceptGen

\* template.py 96-100: the content is exhausted (or the generator is
\* closed); the finally block pops the innermost entry.
GenFinish(g) ==
    /\ gpc[g] = "suspended"
    /\ gpopped' = [gpopped EXCEPT ![g] = Last(gcontext)]
    /\ gcontext' = ContextPop(gcontext)
    /\ gpc' = [gpc EXCEPT ![g] = "done"]
    /\ gprev' = glast
    /\ glast' = <<"finish", g>>
    /\ UNCHANGED <<gread, gresumes>>
    /\ UNCHANGED exceptGen

GenNext ==
    \/ \E g \in Generators : GenStart(g)
    \/ \E g \in Generators : GenResume(g)
    \/ \E g \in Generators : GenFinish(g)

\* C26: when two renders on one thread are drained in turns, B started
\* after A started and A resumed or finished before B finished, the bad
\* state is there: the function A enters reads B's mapping as the innermost
\* context, the pop at A's end removes the mapping B pushed, and B goes on
\* without its mapping on the stack.
C26_InterleavedRendersMixContexts ==
    \A a, b \in Generators :
        (a # b /\ gprev = <<"start", b>>) =>
            /\ glast = <<"resume", a>> => gread[a] = b
            /\ glast = <<"finish", a>> =>
                  /\ gpopped[a] = b
                  /\ gpc[b] = "suspended"
                  /\ \A i \in 1..Len(gcontext) : gcontext[i] # b

\* A was resumed after B started and read B's mapping, then A ended and
\* its pop took B's mapping while B is still being drained.
C26_Witness ==
    /\ gread[1] = 2
    /\ gpopped[1] = 2
    /\ gpc[2] = "suspended"
    /\ gcontext = <<1>>

(***************************************************************************)
(* compilexml.py: make_dom                                                 *)
(*                                                                         *)
(* The items are those parse_html returns: OpenTag, CloseTag, OpenCloseTag *)
(* and everything else (text, entities, comments), here "Text".  A tag     *)
(* carries its qname, a number.  An element is identified with the index   *)
(* of the item that opened it; the root Fragment is element 0.             *)
(***************************************************************************)
Qnames == 1..MaxQnames
FragmentQname == 0          \* "#fragment", which no tag can be named
DomItems ==
    [type : {"OpenTag", "CloseTag", "OpenCloseTag"}, content : Qnames]
        \cup {[type |-> "Text", content |-> 0]}
ElementIds == 0..MaxTokens

DomIdle ==
    /\ ditems = <<>>
    /\ di = 0
    /\ dstack = <<>>
    /\ dchildren = <<>>
    /\ dstatus = "idle"
    /\ derror = 0

\* compilexml.py 442-443: stack = [Fragment()]; head = stack[-1]
DomInit ==
    /\ ditems \in SeqsUpTo(DomItems, MaxTokens)
    /\ di = 1
    /\ dstack = <<0>>
    /\ dchildren = [e \in ElementIds |-> <<>>]
    /\ dstatus = "building"
    /\ derror = 0

\* The qname of element e.
ElementQname(e) == IF e = 0 THEN FragmentQname ELSE ditems[e].content

\* A close tag accepted whatever element is open.
CloseMatches_Any(item, head) == TRUE

\* compilexml.py 470: item.qname != head.qname raises
CloseMatches(item, head) == item.content = ElementQname(head)

\* compilexml.py 444-481: one turn of the loop over parse_result.
DomItem ==
    /\ dstatus = "building"
    /\ di <= Len(ditems)
    /\ LET item == ditems[di]
           head == Last(dstack)
       IN  IF item.type = "OpenCloseTag"
           THEN /\ dchildren' = [dchildren EXCEPT ![head] = Append(@, di)]
                /\ UNCHANGED <<dstack, dstatus, derror>>
           ELSE IF item.type = "OpenTag"
           THEN /\ dchildren' = [dchildren EXCEPT ![head] = Append(@, di)]
                /\ dstack' = Append(dstack, di)
                /\ UNCHANGED <<dstatus, derror>>
           ELSE IF item.type = "CloseTag"
           THEN IF ~CloseMatches(item, head)
                THEN /\ dstatus' = "PigletParseError"
                     /\ derror' = di
                     /\ UNCHANGED <<dstack, dchildren>>
                ELSE /\ dstack' = Front(dstack)
                     /\ UNCHANGED <<dchildren, dstatus, derror>>
           ELSE /\ dchildren' = [dchildren EXCEPT ![head] = Append(@, di)]
                /\ UNCHANGED <<dstack, dstatus, derror>>
    /\ di' = di + 1
    /\ UNCHANGED ditems
    /\ UNCHANGED exceptDom

\* compilexml.py 482-488: after the loop, an element still open is an
\* error naming the innermost one; otherwise the root Fragment is returned.
DomEnd ==
    /\ dstatus = "building"
    /\ di > Len(ditems)
    /\ IF Len(dstack) > 1
       THEN dstatus' = "PigletParseError" /\ derror' = Last(dstack)
       ELSE dstatus' = "returned" /\ derror' = derror
    /\ UNCHANGED <<ditems, di, dstack, dchildren>>
    /\ UNCHANGED exceptDom

DomNext ==
    \/ DomItem
    \/ DomEnd

\* The number of elements open before item k (k may be Len(ditems) + 1).
Depth(k) ==
    Cardinality({m \in 1..(k - 1) : ditems[m].type = "OpenTag"}) -
    Cardinality({m \in 1..(k - 1) : ditems[m].type = "CloseTag"})

\* The open tags before position k whose element is still open there.
OpenAt(k) ==
    {i \in 1..(k - 1) :
        /\ ditems[i].type = "OpenTag"
        /\ \A m \in (i + 1)..k : Depth(m) > Depth(i)}

\* The innermost element open at position k; 0, the root, if there is none.
Enclosing(k) ==
    IF OpenAt(k) = {} THEN 0
    ELSE CHOOSE i \in OpenAt(k) : \A j \in OpenAt(k) : j <= i

CloseTags == {j \in 1..Len(ditems) : ditems[j].type = "CloseTag"}
BadCloseTags ==
    {j \in CloseTags :
        Enclosing(j) = 0 \/ ditems[Enclosing(j)].content # ditems[j].content}
WellNested == BadCloseTags = {} /\ Enclosing(Len(ditems) + 1) = 0

\* The close tag of the element opened at i, in well nested items.
ClosedBy(i) ==
    CHOOSE j \in CloseTags : j > i /\ Enclosing(j) = i

\* C22: make_dom returns a tree exactly when every close tag closes the
\* innermost open element and nothing is open at the end; otherwise it
\* raises a parse error naming the offending tag (the first close tag that
\* does not match, else the innermost unclosed element); the root Fragment
\* is never popped; and in the tree returned the children of an element are
\* the items between its open tag and the matching close tag, in order,
\* each under the innermost element around it.
C22_MakeDomAcceptsWellNested ==
    /\ dstatus # "idle" => (Len(dstack) >= 1 /\ dstack[1] = 0)
    /\ dstatus \in {"returned", "PigletParseError"} =>
          /\ dstatus = "returned" <=> WellNested
          /\ dstatus = "PigletParseError" =>
                IF BadCloseTags # {}
                THEN derror \in BadCloseTags /\
                     \A j \in BadCloseTags : derror <= j
                ELSE derror # 0 /\ derror = Enclosing(Len(ditems) + 1)
          /\ dstatus = "returned" =>
                /\ \A e \in 1..Len(ditems) :
                      ditems[e].type = "OpenTag" =>
                         dchildren[e] =
                            Ascending({k \in (e + 1)..(ClosedBy(e) - 1) :
                                           /\ ditems[k].type # "CloseTag"
                                           /\ Enclosing(k) = e})
                /\ dchildren[0] =
                      Ascending({k \in 1..Len(ditems) :
                                     /\ ditems[k].type # "CloseTag"
                                     /\ Enclosing(k) = 0})

\* <a><b></b></a>: the root holds a, a holds b, b is empty.
C22_Witness ==
    /\ dstatus = "returned"
    /\ Len(ditems) = 4
    /\ dchildren[0] = <<1>>
    /\ dchildren[1] = <<2>>
    /\ dchildren[2] = <<>>

(***************************************************************************)
(* compilett.py: make_tree                                                 *)
(*                                                                         *)
(* The items are those parse_tt returns: Statements and texts.  A          *)
(* Statement named "include" is an open-close tag, one whose name starts   *)
(* with "end" a close tag (its name is kept here without the "end"), any   *)
(* other an open tag.  A statement is identified with the index of its     *)
(* item; the root Container is 0.                                          *)
(***************************************************************************)
OpenNames == {"if", "else", "for"}
TreeItems ==
    [type : {"open"}, name : OpenNames]
        \cup [type : {"close"}, name : OpenNames \cup {""}]
        \cup {[type |-> "openclose", name |-> "include"],
              [type |-> "text", name |-> ""]}

TreeIdle ==
    /\ mitems = <<>>
    /\ mi = 0
    /\ mstack = <<>>
    /\ mhead = 0
    /\ mchildren = <<>>
    /\ mendtag = <<>>
    /\ mstatus = "idle"
    /\ merror = 0

\* compilett.py 88-89: stack = [Container()]; head = stack[-1]
TreeStart(parse_result) ==
    /\ mitems = parse_result
    /\ mi = 1
    /\ mstack = <<0>>
    /\ mhead = 0
    /\ mchildren = [e \in 0..Len(parse_result) |-> <<>>]
    /\ mendtag = [e \in 0..Len(parse_result) |-> 0]
    /\ mstatus = "building"
    /\ merror = 0

TreeInit == \E parse_result \in SeqsUpTo(TreeItems, MaxTokens) :
               TreeStart(parse_result)

\* compilett.py 102-103: stack.pop() returns the item it removes, the else
\* statement itself, so head stays the else.
PopElse(stack) == [stack |-> Front(stack), head |-> Last(stack)]

\* compilett.py 90-116: one turn of the loop over parse_result.
TreeItem ==
    /\ mstatus = "building"
    /\ mi <= Len(mitems)
    /\ LET item == mitems[mi]
       IN  IF item.type = "open"
           THEN /\ mchildren' = [mchildren EXCEPT ![mhead] = Append(@, mi)]
                /\ mstack' = Append(mstack, mi)
                /\ mhead' = mi
                /\ UNCHANGED <<mendtag, mstatus, merror>>
           ELSE IF item.type = "close"
           THEN IF mhead = 0
                THEN \* head.name: a Container has no name
                     /\ mstatus' = "AttributeError"
                     /\ UNCHANGED <<mstack, mhead, mchildren, mendtag,
                                    merror>>
                ELSE LET popped == IF mitems[mhead].name = "else"
                                   THEN PopElse(mstack)
                                   ELSE [stack |-> mstack, head |-> mhead]
                     IN  IF popped.head = 0
                         THEN /\ mstatus' = "AttributeError"
                              /\ UNCHANGED <<mstack, mhead, mchildren,
                                             mendtag, merror>>
                         ELSE IF item.name # "" /\
                                 item.name # mitems[popped.head].name
                         THEN /\ mstatus' = "PigletParseError"
                              /\ merror' = mi
                              /\ UNCHANGED <<mstack, mhead, mchildren,
                                             mendtag>>
                         ELSE IF Len(popped.stack) < 2
                         THEN \* head.end_tag = item; stack.pop() leaves
                              \* the stack empty: stack[-1]
                              /\ mstatus' = "IndexError"
                              /\ mendtag' = [mendtag EXCEPT
                                                ![popped.head] = mi]
                              /\ UNCHANGED <<mstack, mhead, mchildren,
                                             merror>>
                         ELSE /\ mendtag' = [mendtag EXCEPT
                                                ![popped.head] = mi]
                              /\ mstack' = Front(popped.stack)
                              /\ mhead' = Last(Front(popped.stack))
                              /\ UNCHANGED <<mchildren, mstatus, merror>>
           ELSE /\ mchildren' = [mchildren EXCEPT ![mhead] = Append(@, mi)]
                /\ UNCHANGED <<mstack, mhead, mendtag, mstatus, merror>>
    /\ mi' = mi + 1
    /\ UNCHANGED mitems
    /\ UNCHANGED exceptTree

\* compilett.py 117-124: after the loop, a statement still open is an
\* error naming it; otherwise the root Container is returned.
TreeEnd ==
    /\ mstatus = "building"
    /\ mi > Len(mitems)
    /\ IF Len(mstack) > 1
       THEN mstatus' = "PigletParseError" /\ merror' = Last(mstack)
       ELSE mstatus' = "returned" /\ merror' = merror
    /\ UNCHANGED <<mitems, mi, mstack, mhead, mchildren, mendtag>>
    /\ UNCHANGED exceptTree

\* The statement whose children hold item k; 0 is the root Container.
ParentOf(k) ==
    CHOOSE e \in DOMAIN mchildren :
        \E n \in 1..Len(mchildren[e]) : mchildren[e][n] = k

\* compilett.py 224-236: compile_if takes the last child of an if as its
\* else branch when that is a Statement named "else", and compiles the
\* other children with _compile_node.
TakenByIf(k) ==
    /\ ParentOf(k) # 0
    /\ mitems[ParentOf(k)].name = "if"
    /\ Last(mchildren[ParentOf(k)]) = k

\* compilett.py 295-313 with 270-281: _compile_node looks the name of
\* every Statement it is handed up in DIRECTIVES, which has no "else".
CompileNodeRaises ==
    \E k \in 1..Len(mitems) :
        /\ mitems[k].type = "open"
        /\ mitems[k].name = "else"
        /\ ~TakenByIf(k)

\* compilett.py 127-134: compile_intermediate after make_tree returned.
TreeCompile ==
    /\ mstatus = "returned"
    /\ mstatus' = IF CompileNodeRaises THEN "KeyError" ELSE "compiled"
    /\ UNCHANGED <<mitems, mi, mstack, mhead, mchildren, mendtag, merror>>
    /\ UNCHANGED exceptTree

TreeNext ==
    \/ TreeItem
    \/ TreeEnd
    \/ TreeCompile

\* The statements open before item k when every close tag before it closed
\* the innermost open statement, an else together with the statement that
\* holds it; innermost last, without the root.
RECURSIVE OpenBefore(_)
OpenBefore(k) ==
    IF k = 1 THEN <<>>
    ELSE LET open == OpenBefore(k - 1)
             item == mitems[k - 1]
             inner == IF open # <<>> /\ mitems[Last(open)].name = "else"
                      THEN Front(open) ELSE open
         IN  IF item.type = "open" THEN Append(open, k - 1)
             ELSE IF item.type = "close"
             THEN IF inner = <<>> THEN <<>> ELSE Front(inner)
             ELSE open

\* The statement the close tag at k closes: the innermost open one, or the
\* one that holds it when that is an else; 0 if there is none.
Closes(k) ==
    LET open == OpenBefore(k)
        inner == IF open # <<>> /\ mitems[Last(open)].name = "else"
                 THEN Front(open) ELSE open
    IN  IF inner = <<>> THEN 0 ELSE Last(inner)

\* The close tags up to item k that close an open statement by its name or
\* with the plain end.
Acceptable(k) ==
    \A j \in 1..k :
        mitems[j].type = "close" =>
           /\ Closes(j) # 0
           /\ mitems[j].name \in {"", mitems[Closes(j)].name}

\* make_tree went past the item before mi without raising on it.
CloseAccepted ==
    \/ mstatus \in {"building", "returned", "compiled", "KeyError"}
    \/ mstatus = "PigletParseError" /\ merror # mi - 1

\* An else statement with no if among the statements open around it.
ElseWithoutIf ==
    \E k \in 1..Len(mitems) :
        /\ mitems[k].type = "open"
        /\ mitems[k].name = "else"
        /\ \A n \in 1..Len(OpenBefore(k)) :
              mitems[OpenBefore(k)[n]].name # "if"

\* C23: a delimited-text source with an else that no if encloses, and
\* whose close tags are in order, makes the construction of the template
\* fail with PigletParseError; no template is produced.
C23_ElseWithoutIfIsParseError ==
    (ElseWithoutIf /\ Acceptable(Len(mitems))
        /\ mstatus \notin {"building", "returned"}) =>
       mstatus = "PigletParseError"

\* C24: a close tag endNAME is accepted exactly when NAME is the name of
\* the statement it closes, a plain end for any open statement; an if with
\* an else branch is closed by one close tag, end or endif, after which
\* both are closed and later items go to the enclosing container.
C24_CloseTagClosesItsStatement ==
    (mi > 1 /\ mi <= Len(mitems) + 1 /\ mitems[mi - 1].type = "close"
        /\ Acceptable(mi - 2) /\ Closes(mi - 1) # 0) =>
       /\ CloseAccepted <=>
             mitems[mi - 1].name \in {"", mitems[Closes(mi - 1)].name}
       /\ mstatus = "building" =>
             /\ mhead = (IF OpenBefore(mi) = <<>> THEN 0
                         ELSE Last(OpenBefore(mi)))
             /\ mstack = <<0>> \o OpenBefore(mi)

(***************************************************************************)
(* compilett.py: strip_ws_on_directive_lines                               *)
(*                                                                         *)
(* The tree is the one make_tree builds from the items.  The sources are   *)
(*     x w {% if %} w x w {% end %} w x                                    *)
(*     x w {% if %} w x w {% else %} w x w {% end %} w x                   *)
(*     x w {% include %} w x                                               *)
(* with w a run of spaces and newlines and every tag carrying any of the   *)
(* modifiers "+", "-" or none ("") on either side.                         *)
(***************************************************************************)
Modifiers == {"+", "-", ""}
WhiteRuns == SeqsUpTo({" ", "\n"}, MaxWhite) \cup {<<>>}
TextItem == [type |-> "text", name |-> ""]
OpenItem(name) == [type |-> "open", name |-> name]
Shapes ==
    {<<TextItem, OpenItem("if"), TextItem,
       [type |-> "close", name |-> ""], TextItem>>,
     <<TextItem, OpenItem("if"), TextItem, OpenItem("else"), TextItem,
       [type |-> "close", name |-> ""], TextItem>>,
     <<TextItem, [type |-> "openclose", name |-> "include"], TextItem>>}

StripIdle ==
    /\ scontent = <<>>
    /\ sorig = <<>>
    /\ smods = <<>>
    /\ swpc = "idle"

StripInit ==
    \E shape \in Shapes, w \in WhiteRuns :
        /\ TreeStart(shape)
        /\ sorig = [k \in 1..Len(shape) |->
                      IF shape[k].type # "text" THEN <<>>
                      ELSE (IF k > 1 THEN w ELSE <<>>) \o <<"x">> \o
                           (IF k < Len(shape) THEN w ELSE <<>>)]
        /\ scontent = sorig
        /\ smods \in [1..Len(shape) -> Modifiers \X Modifiers]
        /\ \A k \in 1..Len(shape) :
              shape[k].type = "text" => smods[k] = <<"", "">>
        /\ swpc = "tree"

\* The number of characters of s, from the start, that are spaces.
RECURSIVE LeadingSpaces(_)
LeadingSpaces(s) ==
    IF s # <<>> /\ Head(s) = " " THEN 1 + LeadingSpaces(Tail(s)) ELSE 0

RECURSIVE TrailingSpaces(_)
TrailingSpaces(s) ==
    IF s # <<>> /\ Last(s) = " " THEN 1 + TrailingSpaces(Front(s)) ELSE 0

\* compilett.py 140: re.sub(r"\A[ \t]*(\r\n|\n|\r)", "", s)
trim_line_start(s) ==
    LET n == LeadingSpaces(s)
    IN  IF n < Len(s) /\ s[n + 1] = "\n"
        THEN SubSeq(s, n + 2, Len(s)) ELSE s

\* compilett.py 143: re.sub(r"([\r\n])[ \t]*\Z", r"\1", s)
trim_line_end(s) ==
    LET n == TrailingSpaces(s)
    IN  IF n < Len(s) /\ s[Len(s) - n] = "\n"
        THEN SubSeq(s, 1, Len(s) - n) ELSE s

\* compilett.py 146: re.sub(r"\A\s*", "", s)
RECURSIVE trim_all_start(_)
trim_all_start(s) ==
    IF s # <<>> /\ Head(s) \in {" ", "\n"}
    THEN trim_all_start(Tail(s)) ELSE s

\* compilett.py 149: re.sub(r"\s*\Z", "", s)
RECURSIVE trim_all_end(_)
trim_all_end(s) ==
    IF s # <<>> /\ Last(s) \in {" ", "\n"}
    THEN trim_all_end(Front(s)) ELSE s

\* compilett.py 153: trim_start[modifier]
trim_start(modifier, s) ==
    IF modifier = "+" THEN s
    ELSE IF modifier = "-" THEN trim_all_start(s)
    ELSE trim_line_start(s)

\* compilett.py 154: trim_end[modifier]
trim_end(modifier, s) ==
    IF modifier = "+" THEN s
    ELSE IF modifier = "-" THEN trim_all_end(s)
    ELSE trim_line_end(s)

IsStatement(k) == mitems[k].type \in {"open", "openclose"}
IsText(k) == mitems[k].type = "text"

\* The place of item k among the children of its parent.
PlaceOf(k) ==
    CHOOSE n \in 1..Len(mchildren[ParentOf(k)]) :
        mchildren[ParentOf(k)][n] = k

\* compilett.py 156-166: the Text is the first child of a Statement.
FirstChildTrim(k, s) ==
    IF ParentOf(k) # 0 /\ PlaceOf(k) = 1
    THEN trim_start(smods[ParentOf(k)][2], s) ELSE s

\* compilett.py 163-166: the Text is the last child of a Statement;
\* node.end_tag.ws_before.
LastChildTrim(k, s) ==
    IF ParentOf(k) # 0 /\ PlaceOf(k) = Len(mchildren[ParentOf(k)])
    THEN trim_end(smods[mendtag[ParentOf(k)]][1], s) ELSE s

\* compilett.py 174-176: the Text follows a Statement that has an end_tag;
\* p.end_tag.ws_after.
AfterStatementTrim(k, s) ==
    LET siblings == mchildren[ParentOf(k)]
        n == PlaceOf(k)
    IN  IF n > 1 /\ IsStatement(siblings[n - 1])
             /\ mendtag[siblings[n - 1]] # 0
        THEN trim_start(smods[mendtag[siblings[n - 1]]][2], s) ELSE s

\* compilett.py 170-172: the Text precedes a Statement; n.ws_before.
BeforeStatementTrim(k, s) ==
    LET siblings == mchildren[ParentOf(k)]
        n == PlaceOf(k)
    IN  IF n < Len(siblings) /\ IsStatement(siblings[n + 1])
        THEN trim_end(smods[siblings[n + 1]][1], s) ELSE s

\* compilett.py 156-176: what the function makes of the Text item k, the
\* trims taken in the order the code applies them.
Stripped(k) ==
    BeforeStatementTrim(k,
        AfterStatementTrim(k,
            LastChildTrim(k,
                FirstChildTrim(k, scontent[k]))))

\* compilett.py 163-166: node.end_tag is None for a Statement whose last
\* child is a Text.
EndTagMissing ==
    \E k \in 1..Len(mitems) :
        /\ IsText(k)
        /\ ParentOf(k) # 0
        /\ PlaceOf(k) = Len(mchildren[ParentOf(k)])
        /\ mendtag[ParentOf(k)] = 0

\* compilett.py 127-129 and 137-180: compile_intermediate calls
\* strip_ws_on_directive_lines on the tree make_tree returned.
StripWs ==
    /\ swpc = "tree"
    /\ mstatus = "returned"
    /\ IF EndTagMissing
       THEN swpc' = "AttributeError" /\ UNCHANGED scontent
       ELSE /\ swpc' = "stripped"
            /\ scontent' = [k \in 1..Len(mitems) |->
                              IF IsText(k) THEN Stripped(k) ELSE <<>>]
    /\ UNCHANGED <<sorig, smods>>
    /\ UNCHANGED exceptStrip

StripNext ==
    \/ TreeItem
    \/ TreeEnd
    \/ StripWs

\* The modifier on the side of the tag at item k that faces a text: its
\* ws_after for the text behind it, its ws_before for the text in front.
Facing(k, side) == IF IsText(k) THEN "+" ELSE smods[k][side]

\* C21: the text next to every tag, open or close, on either side, of every
\* kind of statement, is trimmed according to the modifier on that side of
\* that tag: "+" leaves it, "-" removes all the whitespace next to the tag,
\* none removes the spaces up to the nearest newline.
C21_TextTrimmedPerModifier ==
    swpc = "stripped" =>
       \A k \in 1..Len(mitems) :
          IsText(k) =>
             LET wsafter == IF k > 1 THEN Facing(k - 1, 2) ELSE "+"
                 wsbefore == IF k < Len(mitems) THEN Facing(k + 1, 1) ELSE "+"
             IN  scontent[k] \in
                    {trim_end(wsbefore, trim_start(wsafter, sorig[k])),
                     trim_start(wsafter, trim_end(wsbefore, sorig[k]))}

(***************************************************************************)
(* Specifications                                                          *)
(***************************************************************************)
RenderIdle == RenderInit

InitRender ==
    PathIdle /\ RenderInit /\ WithIdle /\ InheritIdle /\ ChooseIdle /\
    LoaderIdle /\ ParseIdle /\ SearchIdle /\ ExcIdle /\ GenIdle /\ DomIdle /\
    TreeIdle /\ StripIdle
SpecRender == InitRender /\ [][RenderNext]_vars

InitWith ==
    PathIdle /\ WithInit /\ RenderIdle /\ InheritIdle /\ ChooseIdle /\
    LoaderIdle /\ ParseIdle /\ SearchIdle /\ ExcIdle /\ GenIdle /\ DomIdle /\
    TreeIdle /\ StripIdle
SpecWith == InitWith /\ [][WithNext]_vars

InitInherit ==
    PathIdle /\ InheritInit /\ RenderIdle /\ WithIdle /\ ChooseIdle /\
    LoaderIdle /\ ParseIdle /\ SearchIdle /\ ExcIdle /\ GenIdle /\ DomIdle /\
    TreeIdle /\ StripIdle
SpecInherit == InitInherit /\ [][InheritNext]_vars

InitInclude ==
    PathIdle /\ IncludeInit /\ RenderIdle /\ WithIdle /\ ChooseIdle /\
    LoaderIdle /\ ParseIdle /\ SearchIdle /\ ExcIdle /\ GenIdle /\ DomIdle /\
    TreeIdle /\ StripIdle
SpecInclude == InitInclude /\ [][InheritNext]_vars
\* A generator that is being drained is resumed until it is exhausted.
SpecIncludeFair == SpecInclude /\ WF_vars(InheritNext)

InitChoose ==
    PathIdle /\ ChooseInit /\ RenderIdle /\ WithIdle /\ InheritIdle /\
    LoaderIdle /\ ParseIdle /\ SearchIdle /\ ExcIdle /\ GenIdle /\ DomIdle /\
    TreeIdle /\ StripIdle
SpecChoose == InitChoose /\ [][ChooseNext]_vars

InitPath ==
    PathInit /\ RenderIdle /\ WithIdle /\ InheritIdle /\ ChooseIdle /\
    LoaderIdle /\ ParseIdle /\ SearchIdle /\ ExcIdle /\ GenIdle /\ DomIdle /\
    TreeIdle /\ StripIdle
SpecPath == InitPath /\ [][PathNext]_vars

InitLoader ==
    LoaderInit /\ RenderIdle /\ WithIdle /\ InheritIdle /\ ChooseIdle /\
    PathIdle /\ ParseIdle /\ SearchIdle /\ ExcIdle /\ GenIdle /\ DomIdle /\
    TreeIdle /\ StripIdle
SpecLoader == InitLoader /\ [][LoaderNext]_vars
SpecSelfLoad == InitLoader /\ [][SelfLoadNext]_vars

InitParse ==
    ParseInit /\ LoaderIdle /\ RenderIdle /\ WithIdle /\ InheritIdle /\
    ChooseIdle /\ PathIdle /\ SearchIdle /\ ExcIdle /\ GenIdle /\ DomIdle /\
    TreeIdle /\ StripIdle
SpecParse == InitParse /\ [][ParseNext]_vars

InitSearch ==
    SearchInit /\ ParseIdle /\ LoaderIdle /\ RenderIdle /\ WithIdle /\
    InheritIdle /\ ChooseIdle /\ PathIdle /\ ExcIdle /\ GenIdle /\ DomIdle /\
    TreeIdle /\ StripIdle
SpecSearch == InitSearch /\ [][SearchNext]_vars

InitExc ==
    ExcInit /\ SearchIdle /\ ParseIdle /\ LoaderIdle /\ RenderIdle /\
    WithIdle /\ InheritIdle /\ ChooseIdle /\ PathIdle /\ GenIdle /\ DomIdle /\
    TreeIdle /\ StripIdle
SpecExc == InitExc /\ [][ExcNext]_vars

InitGen ==
    GenInit /\ ExcIdle /\ SearchIdle /\ ParseIdle /\ LoaderIdle /\
    RenderIdle /\ WithIdle /\ InheritIdle /\ ChooseIdle /\ PathIdle /\
    DomIdle /\ TreeIdle /\ StripIdle
SpecGen == InitGen /\ [][GenNext]_vars

InitDom ==
    DomInit /\ GenIdle /\ ExcIdle /\ SearchIdle /\ ParseIdle /\ LoaderIdle /\
    RenderIdle /\ WithIdle /\ InheritIdle /\ ChooseIdle /\ PathIdle /\
    TreeIdle /\ StripIdle
SpecDom == InitDom /\ [][DomNext]_vars

InitTree ==
    TreeInit /\ DomIdle /\ GenIdle /\ ExcIdle /\ SearchIdle /\ ParseIdle /\
    LoaderIdle /\ RenderIdle /\ WithIdle /\ InheritIdle /\ ChooseIdle /\
    PathIdle /\ StripIdle
SpecTree == InitTree /\ [][TreeNext]_vars

InitStrip ==
    StripInit /\ DomIdle /\ GenIdle /\ ExcIdle /\ SearchIdle /\
    ParseIdle /\ LoaderIdle /\ RenderIdle /\ WithIdle /\ InheritIdle /\
    ChooseIdle /\ PathIdle
SpecStrip == InitStrip /\ [][StripNext]_vars

\* C1: every render call, however it ends, leaves the thread's context
\* stack exactly as it found it.
C1_RenderLeavesStackUnchanged ==
    finished # 0 => context = before[finished]

=============================================================================
